---- MODULE Spec2Model ----
(***************************************************************************)
(* A model of Scripts/jamfPro_CustomPatchReport_MinVersSupport.py:         *)
(* version normalisation and comparison, the paged collectors of           *)
(* JamfProClient, the activity-window filter, the titles file and the      *)
(* baseline summary, the fleet ratio, the run of main and the interactive  *)
(* title picker; and of process_compliance_reports of                      *)
(* Scripts/jamf-compliance-report-monthly.py and                           *)
(* Scripts/jamf_compliance_report_monthly_v2.1.py.                         *)
(*                                                                         *)
(* A Python str is a sequence of one-character strings; a Python list is   *)
(* a sequence.                                                             *)
(***************************************************************************)
EXTENDS Integers, Sequences, FiniteSets, TLC

VARIABLES
    \* version_gte(a, b) in an interpreter where _PKG_VERSION is set or None
    a, b, PKG_VERSION, vpc, result,
    \* repeated application of normalize_version to one string
    ns, nhist,
    \* one paged collection of JamfProClient
    fn, ppc, page, acc, accIds, yielded, pending, requests, fetched, maxTotal,
    allFull, resp, derived, ret, err,
    \* filter_active_rows(rows, days)
    rows, days, fpc, out,
    \* the command line of main: --interactive, --titles-file (the file it
    \* names), --global-min-version, --export-titles
    interactive, titles_file, global_min_version, export_titles,
    \* read_titles_file and build_baseline_summary(title, rows_all, days)
    file_sels, title, rows_all, sum_days, spc, summary, detail_rows,
    \* calculate_active_ratio over the inventory, then one row of
    \* build_v2_overall_dataframe
    ratio_total, ratio_active, ratio_days, rpc, patch_summary, overall,
    \* one run of main
    catalog, all_titles, chosen, selections, mpc, calls, written, rc, path,
    idx, failed, baseline_summary_rows, per_title_detail, summaries,
    \* process_compliance_reports of the monthly compliance report scripts
    script, csv_files, dated_files, reads, compliance_history, computer_names,
    dates, trend_data, writer, tpc, terr,
    \* version_gte called on the pairs of three strings
    va, vb, vc, gte, opc,
    \* interactive_select_titles(all_titles)
    filtered, selected, picks, q, deduped, ipc

vars == << a, b, PKG_VERSION, vpc, result, ns, nhist,
           fn, ppc, page, acc, accIds, yielded, pending, requests, fetched,
           maxTotal, allFull, resp, derived, ret, err,
           rows, days, fpc, out,
           interactive, titles_file, global_min_version, export_titles,
           file_sels, title, rows_all, sum_days, spc, summary, detail_rows,
           ratio_total, ratio_active, ratio_days, rpc, patch_summary, overall,
           catalog, all_titles, chosen, selections, mpc, calls, written, rc,
           path, idx, failed, baseline_summary_rows, per_title_detail,
           summaries,
           script, csv_files, dated_files, reads, compliance_history,
           computer_names, dates, trend_data, writer, tpc, terr,
           va, vb, vc, gte, opc,
           filtered, selected, picks, q, deduped, ipc >>

versionVars == << a, b, PKG_VERSION, vpc, result >>
normVars    == << ns, nhist >>
pageVars    == << fn, ppc, page, acc, accIds, yielded, pending, requests,
                  fetched, maxTotal, allFull, resp, derived, ret, err >>
filterVars  == << rows, days, fpc, out >>
argsVars    == << interactive, titles_file, global_min_version,
                  export_titles >>
summaryVars == << file_sels, title, rows_all, sum_days, spc, summary,
                  detail_rows >>
ratioVars   == << ratio_total, ratio_active, ratio_days, rpc,
                  patch_summary, overall >>
mainVars    == << catalog, all_titles, chosen, selections, mpc, calls,
                  written, rc, path, idx, failed, baseline_summary_rows,
                  per_title_detail, summaries >>
\* the variables of the report pipeline, which the components above leave
\* alone
reportVars  == << argsVars, summaryVars, ratioVars, mainVars >>
trendVars   == << script, csv_files, dated_files, reads, compliance_history,
                  computer_names, dates, trend_data, writer, tpc, terr >>
\* the variables of the components that follow the run of main
orderVars   == << va, vb, vc, gte, opc >>
pickerVars  == << filtered, selected, picks, q, deduped, ipc >>
laterVars   == << trendVars, orderVars, pickerVars >>

(***************************************************************************)
(* Bounds of the model.                                                    *)
(***************************************************************************)
\* longest candidate version string a
MaxCandidateLen == 2
\* longest baseline version string b
MaxBaselineLen == 3
\* longest string normalize_version is applied to
MaxNormLen == 4
\* the page size asked of the backend (page_size: 200 by default in
\* patch_report and list_patch_titles, 100 in list_inventory), scaled down
PageSize == 2
\* the greatest totalCount the backend reports
MaxTotal == 4
\* the backend's pages with index MaxPages and beyond hold no item
MaxPages == 4
\* the most device records in one patch report
MaxRows == 2
\* the widest activity window (--days)
MaxDays == 1
\* the most items in the inventory
MaxInventory == 100
\* the most entries in the catalog of patch titles
MaxTitles == 2
\* the most selections made in the interactive picker
MaxPicks == 2
\* the most data lines in a titles file
MaxFileRows == 2
\* the most CSV files in the input directory of the monthly report
MaxFiles == 5
\* the greatest day of a date key
MaxDateKey == 2
\* the most CSV files that hold data lines
MaxSnapshots == 2
\* the most data lines in all the CSV files of the input directory
MaxSnapRows == 2
\* longest middle string of a triple of version strings
MaxMiddleLen == 1
\* longest numeric command typed at the prompt of the picker
MaxCmdLen == 3
\* longest search text typed at the prompt of the picker
MaxQueryLen == 2

SeqsUpTo(S, n) == UNION { [1..k -> S] : k \in 0..n }

(***************************************************************************)
(* Characters.  Version strings are drawn over Chars; normalize_version is *)
(* also run over strings that hold a line break, which "." of the regular  *)
(* expression does not match and str.strip() removes.                      *)
(***************************************************************************)
Digits == { "0", "1" }
Letters == { "x" }
Chars == Digits \cup Letters \cup { ".", "(", ")", " " }
NormChars == Chars \cup { "\n" }

IsSpace(c) == c \in { " ", "\n" }
IsDigit(c) == c \in { "0", "1", "2", "3", "4", "5", "6", "7", "8", "9" }
IsAlpha(c) == c \in { "x", "X", "a", "e", "n", "o" }

DigitValue(c) ==
    CASE c = "0" -> 0 [] c = "1" -> 1 [] c = "2" -> 2 [] c = "3" -> 3
      [] c = "4" -> 4 [] c = "5" -> 5 [] c = "6" -> 6 [] c = "7" -> 7
      [] c = "8" -> 8 [] c = "9" -> 9

\* str.strip(): leading and trailing whitespace removed
RECURSIVE lstrip(_)
lstrip(s) ==
    IF s # << >> /\ IsSpace(Head(s)) THEN lstrip(Tail(s)) ELSE s

RECURSIVE rstrip(_)
rstrip(s) ==
    IF s # << >> /\ IsSpace(s[Len(s)])
    THEN rstrip(SubSeq(s, 1, Len(s) - 1))
    ELSE s

strip(s) == rstrip(lstrip(s))

\* The end of the match of \(.*?\) that starts at the "(" at position i: the
\* first ")" after i with no line break in between, 0 when there is none.
RECURSIVE FirstClose(_, _)
FirstClose(s, j) ==
    IF j > Len(s) THEN 0
    ELSE IF s[j] = ")" THEN j
    ELSE IF s[j] = "\n" THEN 0
    ELSE FirstClose(s, j + 1)

\* re.sub(r"\(.*?\)", "", s): leftmost non-overlapping matches removed, the scan
\* resuming after each match
RECURSIVE re_sub_parens(_)
re_sub_parens(s) ==
    IF s = << >> THEN << >>
    ELSE IF Head(s) = "(" /\ FirstClose(s, 2) # 0
         THEN re_sub_parens(SubSeq(s, FirstClose(s, 2) + 1, Len(s)))
         ELSE << Head(s) >> \o re_sub_parens(Tail(s))

\* normalize_version without the final strip()
normalize_version_nostrip(s) == re_sub_parens(strip(s))

normalize_version(s) == strip(re_sub_parens(strip(s)))

(***************************************************************************)
(* The fallback comparison of version_gte: _tokens and Python's tuple      *)
(* order.                                                                  *)
(***************************************************************************)
\* int(p) of a run of digits
RECURSIVE int(_)
int(p) ==
    IF p = << >> THEN 0
    ELSE 10 * int(SubSeq(p, 1, Len(p) - 1)) + DigitValue(p[Len(p)])

\* the length of the maximal run of characters of one class at the head of s
RECURSIVE RunLen(_, _)
RunLen(s, digit) ==
    IF s = << >> THEN 0
    ELSE IF (digit /\ IsDigit(Head(s))) \/ (~digit /\ IsAlpha(Head(s)))
         THEN 1 + RunLen(Tail(s), digit)
         ELSE 0

\* str.lower() of one letter
Lower(c) == IF c = "X" THEN "x" ELSE c

\* _tokens(v): re.findall(r"\d+|[A-Za-z]+", v), a digit run as <<0, int>> and a
\* letter run as <<1, lowered letters>>
RECURSIVE tokens(_)
tokens(v) ==
    IF v = << >> THEN << >>
    ELSE IF IsDigit(Head(v))
         THEN << << 0, int(SubSeq(v, 1, RunLen(v, TRUE))) >> >>
              \o tokens(SubSeq(v, RunLen(v, TRUE) + 1, Len(v)))
    ELSE IF IsAlpha(Head(v))
         THEN << << 1, [i \in 1..RunLen(v, FALSE) |-> Lower(v[i])] >> >>
              \o tokens(SubSeq(v, RunLen(v, FALSE) + 1, Len(v)))
    ELSE tokens(Tail(v))

\* the code point order of the characters of the model
Ord(c) ==
    CASE c = "\n" -> 10 [] c = " " -> 32 [] c = "(" -> 40 [] c = ")" -> 41
      [] c = "." -> 46 [] IsDigit(c) -> 48 + DigitValue(c) [] c = "X" -> 88
      [] c = "a" -> 97 [] c = "e" -> 101 [] c = "n" -> 110 [] c = "o" -> 111
      [] c = "x" -> 120

\* Python's order on str: -1, 0, 1
RECURSIVE StrCmp(_, _)
StrCmp(x, y) ==
    IF x = << >> /\ y = << >> THEN 0
    ELSE IF x = << >> THEN -1
    ELSE IF y = << >> THEN 1
    ELSE IF Ord(Head(x)) < Ord(Head(y)) THEN -1
    ELSE IF Ord(Head(x)) > Ord(Head(y)) THEN 1
    ELSE StrCmp(Tail(x), Tail(y))

\* the order of two (kind, value) pairs: the kind decides first, so an int is
\* never compared with a str
TokenCmp(t, u) ==
    IF t[1] < u[1] THEN -1
    ELSE IF t[1] > u[1] THEN 1
    ELSE IF t[1] = 0
         THEN (IF t[2] < u[2] THEN -1 ELSE IF t[2] > u[2] THEN 1 ELSE 0)
         ELSE StrCmp(t[2], u[2])

\* Python's order on tuples: lexicographic, a proper prefix is the lesser
RECURSIVE TupleCmp(_, _)
TupleCmp(x, y) ==
    IF x = << >> /\ y = << >> THEN 0
    ELSE IF x = << >> THEN -1
    ELSE IF y = << >> THEN 1
    ELSE IF TokenCmp(Head(x), Head(y)) # 0 THEN TokenCmp(Head(x), Head(y))
    ELSE TupleCmp(Tail(x), Tail(y))

\* _tokens(a_norm) >= _tokens(b_norm)
fallback_gte(a_norm, b_norm) == TupleCmp(tokens(a_norm), tokens(b_norm)) >= 0

(***************************************************************************)
(* The packaging library's order, used when _PKG_VERSION is set.  Over     *)
(* Chars a normalised string is a valid version exactly when it is         *)
(* digits(.digits)*: "x" is no pre/post/dev label, and blanks, parentheses *)
(* and empty components are rejected (InvalidVersion).  A valid version    *)
(* compares by its release numbers with trailing zero components dropped.  *)
(***************************************************************************)
\* v split at each "."
RECURSIVE SplitDots(_)
SplitDots(v) ==
    IF \E i \in 1..Len(v) : v[i] = "."
    THEN LET i == CHOOSE k \in 1..Len(v) :
                      v[k] = "." /\ \A m \in 1..(k - 1) : v[m] # "."
         IN  << SubSeq(v, 1, i - 1) >> \o SplitDots(SubSeq(v, i + 1, Len(v)))
    ELSE << v >>

IsNumericDotted(v) ==
    \A i \in 1..Len(SplitDots(v)) :
        /\ SplitDots(v)[i] # << >>
        /\ \A k \in 1..Len(SplitDots(v)[i]) : IsDigit(SplitDots(v)[i][k])

\* a tuple of numbers without its trailing zeros
RECURSIVE DropTrailingZeros(_)
DropTrailingZeros(r) ==
    IF r # << >> /\ r[Len(r)] = 0
    THEN DropTrailingZeros(SubSeq(r, 1, Len(r) - 1))
    ELSE r

\* the comparison key of packaging's Version for a release-only version
PkgKey(v) ==
    DropTrailingZeros([i \in 1..Len(SplitDots(v)) |-> int(SplitDots(v)[i])])

RECURSIVE IntTupleCmp(_, _)
IntTupleCmp(x, y) ==
    IF x = << >> /\ y = << >> THEN 0
    ELSE IF x = << >> THEN -1
    ELSE IF y = << >> THEN 1
    ELSE IF Head(x) < Head(y) THEN -1
    ELSE IF Head(x) > Head(y) THEN 1
    ELSE IntTupleCmp(Tail(x), Tail(y))

\* _PKG_VERSION.parse(a_norm) >= _PKG_VERSION.parse(b_norm), both valid
PkgGte(a_norm, b_norm) == IntTupleCmp(PkgKey(a_norm), PkgKey(b_norm)) >= 0

\* version_gte with the test of a_norm before the test of b_norm
version_gte_candidate_first(x, y, pkg) ==
    IF normalize_version(x) = << >> THEN FALSE
    ELSE IF normalize_version(y) = << >> THEN TRUE
    ELSE IF pkg /\ IsNumericDotted(normalize_version(x))
                /\ IsNumericDotted(normalize_version(y))
         THEN PkgGte(normalize_version(x), normalize_version(y))
         ELSE fallback_gte(normalize_version(x), normalize_version(y))

\* version_gte without the test of a_norm
version_gte_no_candidate_test(x, y, pkg) ==
    IF normalize_version(y) = << >> THEN TRUE
    ELSE IF pkg /\ IsNumericDotted(normalize_version(x))
                /\ IsNumericDotted(normalize_version(y))
         THEN PkgGte(normalize_version(x), normalize_version(y))
         ELSE fallback_gte(normalize_version(x), normalize_version(y))

\* version_gte(x, y) where pkg says whether the packaging library was imported
version_gte(x, y, pkg) ==
    LET a_norm == normalize_version(x)
        b_norm == normalize_version(y)
    IN  IF b_norm = << >> THEN TRUE
        ELSE IF a_norm = << >> THEN FALSE
        ELSE IF pkg /\ IsNumericDotted(a_norm) /\ IsNumericDotted(b_norm)
             THEN PkgGte(a_norm, b_norm)
             ELSE fallback_gte(a_norm, b_norm)

(***************************************************************************)
(* Idle values of each component's variables.                              *)
(***************************************************************************)
IdleVersion ==
    /\ a = << >> /\ b = << >> /\ PKG_VERSION = FALSE
    /\ vpc = "idle" /\ result = FALSE

IdleNorm == ns = << >> /\ nhist = << >>

\* no response received yet, no error raised, nothing returned
NoResponse ==
    [status |-> 0, body |-> "", shape |-> "none", n |-> 0, hasTotal |-> FALSE,
     total |-> 0, ids |-> 0]
NoError == [status |-> 0, body |-> ""]
NotReturned == << >>

IdlePage ==
    /\ fn = "none" /\ ppc = "idle" /\ page = 0 /\ acc = 0 /\ accIds = 0
    /\ yielded = 0 /\ pending = 0 /\ requests = 0 /\ fetched = 0
    /\ maxTotal = 0 /\ allFull = TRUE /\ resp = NoResponse /\ derived = << >>
    /\ ret = NotReturned /\ err = NoError

IdleFilter == rows = << >> /\ days = 0 /\ fpc = "idle" /\ out = << >>

\* no titles file named on the command line
NoFile == [kind |-> "none", hasTitle |-> FALSE, hasMin |-> FALSE, rows |-> << >>]

IdleArgs ==
    /\ interactive = FALSE /\ titles_file = NoFile
    /\ global_min_version = << >> /\ export_titles = FALSE

\* no TitleSelection built yet, no summary returned yet
NoTitle == [id |-> 0, title |-> << >>, min_version |-> << >>]
NoSummary ==
    [Title |-> << >>, Baseline |-> << >>, ActiveDevices |-> 0, Compliant |-> 0,
     NonCompliant |-> 0, CompliancePct |-> 0]

IdleSummary ==
    /\ file_sels = << >> /\ title = NoTitle /\ rows_all = << >>
    /\ sum_days = 0 /\ spc = "idle" /\ summary = NoSummary
    /\ detail_rows = << >>

NoPatchSummary == [hostsOnLatestVersion |-> 0, hostsOutOfDate |-> 0]
NoOverall ==
    [HostsAll |-> 0, PatchedAll |-> 0, OutOfDateAll |-> 0, CompletionAll |-> 0,
     PatchedActive |-> 0, OutOfDateActive |-> 0, CompletionActive |-> 0]

IdleRatio ==
    /\ ratio_total = 0 /\ ratio_active = 0 /\ ratio_days = 0 /\ rpc = "idle"
    /\ patch_summary = NoPatchSummary /\ overall = NoOverall

IdleMain ==
    /\ catalog = << >> /\ all_titles = << >> /\ chosen = << >>
    /\ selections = << >> /\ mpc = "idle" /\ calls = << >>
    /\ written = { } /\ rc = "none" /\ path = << >> /\ idx = 0
    /\ failed = << >> /\ baseline_summary_rows = << >>
    /\ per_title_detail = << >> /\ summaries = << >>

IdleReport == IdleArgs /\ IdleSummary /\ IdleRatio /\ IdleMain

IdleTrend ==
    /\ script = "none" /\ csv_files = << >> /\ dated_files = << >>
    /\ reads = << >> /\ compliance_history = << >>
    /\ computer_names = << >> /\ dates = << >> /\ trend_data = << >>
    /\ writer = FALSE /\ tpc = "idle" /\ terr = ""

\* no comparison made yet
NoAnswers ==
    [aa |-> FALSE, bb |-> FALSE, cc |-> FALSE, ab |-> FALSE, bc |-> FALSE,
     ac |-> FALSE]

IdleOrder ==
    va = << >> /\ vb = << >> /\ vc = << >> /\ gte = NoAnswers /\ opc = "idle"

IdlePicker ==
    /\ filtered = << >> /\ selected = << >> /\ picks = << >> /\ q = << >>
    /\ deduped = << >> /\ ipc = "idle"

IdleLater == IdleTrend /\ IdleOrder /\ IdlePicker

(***************************************************************************)
(* version_gte called once on a pair of strings.                           *)
(***************************************************************************)
InitVersion ==
    /\ a \in SeqsUpTo(Chars, MaxCandidateLen)
    /\ b \in SeqsUpTo(Chars, MaxBaselineLen)
    /\ PKG_VERSION \in BOOLEAN
    /\ vpc = "ready" /\ result = FALSE
    /\ IdleNorm /\ IdleLater /\ IdlePage /\ IdleFilter /\ IdleReport

VersionGte ==
    /\ vpc = "ready"
    /\ result' = version_gte(a, b, PKG_VERSION)
    /\ vpc' = "compared"
    /\ UNCHANGED << a, b, PKG_VERSION, normVars, laterVars, pageVars, filterVars,
                   reportVars >>

NextVersion == VersionGte

SpecVersion == InitVersion /\ [][NextVersion]_vars

(***************************************************************************)
(* normalize_version applied to a string, and again to its own output.     *)
(***************************************************************************)
InitNorm ==
    /\ ns \in SeqsUpTo(NormChars, MaxNormLen)
    /\ nhist = << >>
    /\ IdleVersion /\ IdleLater /\ IdlePage /\ IdleFilter /\ IdleReport

NormalizeVersion ==
    /\ Len(nhist) < 2
    /\ nhist' = Append(nhist,
                       normalize_version(IF nhist = << >> THEN ns
                                         ELSE nhist[Len(nhist)]))
    /\ UNCHANGED << ns, versionVars, laterVars, pageVars, filterVars, reportVars >>

NextNorm == NormalizeVersion

SpecNorm == InitNorm /\ [][NextNorm]_vars

(***************************************************************************)
(* The paged collectors of JamfProClient.  The backend answers each GET    *)
(* with any response: a failure status with a body, or status 200 with one *)
(* of the JSON shapes the code tells apart:                                *)
(*   results_total  {"results": [n items], "totalCount": total}            *)
(*   results        {"results": [n items]}                                 *)
(*   alt            {"items": [n items]}   (or "titles", "data")           *)
(*   alt_total      {"items": [n items], "totalCount": total}              *)
(*   list           [n items]                                              *)
(*   other          a dict without a list                                  *)
(*   scalar         a number, a string or null                             *)
(* hasTotal says whether "totalCount" is present; ids is the number of the  *)
(* n items that carry a truthy "id".                                       *)
(***************************************************************************)
Collectors == { "patch_report", "list_patch_titles", "list_inventory" }

TotalShapes ==
    { "results_total", "alt_total", "results_null_total", "results_text_total" }
NoTotalShapes ==
    { "results", "alt", "list", "other", "scalar", "results_null",
      "results_text" }

\* a dict whose "results" is no list: a value "for item in results" cannot
\* run over (null, a number), or a string or dict of n elements
NullResults == { "results_null", "results_null_total" }
TextResults == { "results_text", "results_text_total" }

ErrorResponses ==
    { [status |-> st, body |-> bd, shape |-> "error", n |-> 0,
       hasTotal |-> FALSE, total |-> 0, ids |-> 0] : st \in { 401, 500 }, bd \in { "denied", "failed" } }

OkResponses(f, p) ==
    { [status |-> 200, body |-> "json", shape |-> sh, n |-> n,
       hasTotal |-> TRUE, total |-> t, ids |-> k] :
        sh \in TotalShapes, n \in (IF p >= MaxPages THEN { 0 } ELSE 0..PageSize),
        t \in 0..MaxTotal,
        k \in (IF f = "list_patch_titles" THEN 0..PageSize ELSE { 0 }) }
    \cup
    { [status |-> 200, body |-> "json", shape |-> sh, n |-> n,
       hasTotal |-> FALSE, total |-> 0, ids |-> k] :
        sh \in NoTotalShapes, n \in (IF p >= MaxPages THEN { 0 } ELSE 0..PageSize),
        k \in (IF f = "list_patch_titles" THEN 0..PageSize ELSE { 0 }) }

\* the responses the backend may give to collector f's request for page p
Responses(f, p) ==
    ErrorResponses
    \cup { r \in OkResponses(f, p) :
             /\ r.ids <= r.n
             /\ (r.shape \in { "other", "scalar" } \cup NullResults => r.n = 0)
             /\ (r.shape \in TextResults => r.ids = 0) }

IsDict(r) ==
    r.shape \in { "results_total", "results", "alt", "alt_total", "other" }
                   \cup NullResults \cup TextResults
IsList(r) == r.shape = "list"

\* _coerce_results(data): <<len(results_list), total_count>>
_coerce_results(r) ==
    IF IsDict(r)
    THEN IF r.shape \in { "results_total", "results" }
         THEN << r.n, IF r.hasTotal THEN r.total ELSE r.n >>
         ELSE IF r.shape \in { "alt", "alt_total" }
              THEN << r.n, r.n >>
              ELSE << 0, 0 >>
    ELSE IF IsList(r) THEN << r.n, r.n >>
    ELSE << 0, 0 >>

\* as SiteTotal, a missing totalCount standing for a total never reached
SiteTotalUnknown(r, dflt, total_est) ==
    IF IsDict(r) /\ r.hasTotal THEN r.total ELSE MaxTotal + PageSize * MaxPages

\* data.get("totalCount", dflt) if isinstance(data, dict) else total_est
SiteTotal(r, dflt, total_est) ==
    IF IsDict(r) THEN (IF r.hasTotal THEN r.total ELSE dflt) ELSE total_est

\* RuntimeError(f"...: {resp.status_code}") without resp.text
RuntimeErrorNoBody(r) == [status |-> r.status, body |-> ""]

\* RuntimeError(f"...: {resp.status_code} {resp.text}")
RuntimeError(r) == [status |-> r.status, body |-> r.body]

\* patch_report comparing with > where the code compares with >=
PatchReportBreaksStrict(n, newAcc, total) == n = 0 \/ newAcc > total

\* patch_report leaving its loop only on len(all_rows) >= total
PatchReportBreaksOnTotalOnly(n, newAcc, total) == newAcc >= total

\* patch_report leaves its loop: "if not rows" before the rows are added, or
\* "if len(all_rows) >= total" after
PatchReportBreaks(n, newAcc, total) == n = 0 \/ newAcc >= total

\* list_patch_titles leaving its loop only on "not items"
ListPatchTitlesBreaksOnEmptyOnly(n, newAcc, total) == n = 0

\* list_patch_titles leaves its loop
ListPatchTitlesBreaks(n, newAcc, total) == newAcc >= total \/ n = 0

\* list_inventory leaves its loop
ListInventoryBreaks(n, p, total) == (p + 1) * PageSize >= total \/ n = 0

Max(x, y) == IF x >= y THEN x ELSE y

\* the bookkeeping of one answered request, whatever the collector
Observe(r) ==
    /\ requests' = requests + 1
    /\ resp' = r
    /\ fetched' = fetched + r.n
    /\ maxTotal' = IF r.hasTotal THEN Max(maxTotal, r.total) ELSE maxTotal

\* a request answered with a status other than 200: the RuntimeError leaves
\* the method, and its local list with it
PageFails(r) ==
    /\ r.status # 200
    /\ Observe(r)
    /\ ppc' = "error"
    /\ err' = RuntimeError(r)
    /\ UNCHANGED << fn, page, acc, accIds, yielded, pending, allFull, derived,
                    ret >>

\* one iteration of the loop of patch_report
PatchReportPage(r) ==
    /\ r.status = 200
    /\ Observe(r)
    /\ LET rows_n    == _coerce_results(r)[1]
           total_est == _coerce_results(r)[2]
           newAcc    == acc + rows_n
           total     == SiteTotal(r, newAcc, total_est)
       IN  /\ acc' = newAcc
           /\ derived' = << rows_n, IF rows_n = 0 THEN total_est ELSE total >>
           /\ IF PatchReportBreaks(rows_n, newAcc, total)
              THEN /\ ppc' = "done"
                   /\ ret' = << newAcc >>
                   /\ UNCHANGED << page, allFull >>
              ELSE /\ page' = page + 1
                   /\ allFull' = (allFull /\ r.n = PageSize)
                   /\ UNCHANGED << ppc, ret >>
    /\ UNCHANGED << fn, accIds, yielded, pending, err >>

\* one iteration of the loop of list_patch_titles; on leaving the loop the
\* entries without an id are dropped and the rest sorted by title
ListPatchTitlesPage(r) ==
    /\ r.status = 200
    /\ Observe(r)
    /\ LET items_n   == _coerce_results(r)[1]
           total_est == _coerce_results(r)[2]
           newAcc    == acc + items_n
           newIds    == accIds + (IF items_n = 0 THEN 0 ELSE r.ids)
           total     == SiteTotal(r, newAcc, total_est)
       IN  /\ acc' = newAcc
           /\ accIds' = newIds
           /\ derived' = << items_n, total >>
           /\ IF ListPatchTitlesBreaks(items_n, newAcc, total)
              THEN /\ ppc' = "done"
                   /\ ret' = << newIds >>
                   /\ UNCHANGED << page, allFull >>
              ELSE /\ page' = page + 1
                   /\ allFull' = (allFull /\ r.n = PageSize)
                   /\ UNCHANGED << ppc, ret >>
    /\ UNCHANGED << fn, yielded, pending, err >>

\* TypeError("'NoneType' object is not iterable") of "for item in results"
TypeError == [status |-> 0, body |-> "TypeError"]

\* results of list_inventory: data.get("results", []) of a dict, whatever
\* its type, a bare list itself, [] of anything else; the number of items
\* "for item in results" runs over
InventoryResults(r) ==
    IF IsDict(r)
    THEN (IF r.shape \in { "results_total", "results" } \cup TextResults
          THEN r.n ELSE 0)
    ELSE (IF IsList(r) THEN r.n ELSE 0)

\* "for item in results" raises: results is neither a list nor anything
\* else that can be iterated
InventoryResultsRaise(r) == r.shape \in NullResults

\* total of list_inventory
InventoryTotal(r) ==
    IF IsDict(r) THEN (IF r.hasTotal THEN r.total ELSE 0)
    ELSE InventoryResults(r)

\* the end of an iteration of the generator of list_inventory: total, the
\* break test and "page += 1"
ListInventoryPageEnds(r) ==
    /\ derived' = << InventoryResults(r), InventoryTotal(r) >>
    /\ IF ListInventoryBreaks(InventoryResults(r), page, InventoryTotal(r))
       THEN /\ ppc' = "done"
            /\ ret' = << yielded >>
            /\ UNCHANGED << page, allFull >>
       ELSE /\ ppc' = "request"
            /\ page' = page + 1
            /\ allFull' = (allFull /\ r.n = PageSize)
            /\ UNCHANGED ret

\* the request of an iteration of the generator of list_inventory.  The
\* generator is suspended at every "yield item", so the items of the page
\* are handed to the consumer one step at a time; a page without results
\* runs on to the break test
ListInventoryPage(r) ==
    /\ r.status = 200
    /\ Observe(r)
    /\ pending' = InventoryResults(r)
    /\ IF InventoryResultsRaise(r)
       THEN /\ ppc' = "raised"
            /\ err' = TypeError
            /\ derived' = << >>
            /\ UNCHANGED << page, allFull, ret, yielded >>
       ELSE IF InventoryResults(r) = 0
       THEN /\ ListInventoryPageEnds(r)
            /\ UNCHANGED << yielded, err >>
       ELSE /\ ppc' = "yield"
            /\ derived' = << >>
            /\ UNCHANGED << page, allFull, ret, yielded, err >>
    /\ UNCHANGED << fn, acc, accIds >>

InitPage ==
    /\ fn \in Collectors
    /\ ppc = "request" /\ page = 0 /\ acc = 0 /\ accIds = 0 /\ yielded = 0
    /\ pending = 0 /\ requests = 0 /\ fetched = 0 /\ maxTotal = 0 /\ allFull = TRUE
    /\ resp = NoResponse /\ derived = << >> /\ ret = NotReturned
    /\ err = NoError
    /\ IdleVersion /\ IdleNorm /\ IdleLater /\ IdleFilter /\ IdleReport

\* the guard of every request: the loop is running.  The backend's pages run
\* out at MaxPages, so the loops never ask for a page beyond it.
Requesting == ppc = "request" /\ page <= MaxPages

\* session.get(...) answered with a failure status
RequestFails ==
    /\ Requesting
    /\ \E r \in Responses(fn, page) : PageFails(r)
    /\ UNCHANGED << versionVars, laterVars, normVars, filterVars, reportVars >>

\* session.get(...) answered with 200, and the rest of the iteration
PatchReportIteration ==
    /\ Requesting /\ fn = "patch_report"
    /\ \E r \in Responses(fn, page) : PatchReportPage(r)
    /\ UNCHANGED << versionVars, laterVars, normVars, filterVars, reportVars >>

ListPatchTitlesIteration ==
    /\ Requesting /\ fn = "list_patch_titles"
    /\ \E r \in Responses(fn, page) : ListPatchTitlesPage(r)
    /\ UNCHANGED << versionVars, laterVars, normVars, filterVars, reportVars >>

ListInventoryIteration ==
    /\ Requesting /\ fn = "list_inventory"
    /\ \E r \in Responses(fn, page) : ListInventoryPage(r)
    /\ UNCHANGED << versionVars, laterVars, normVars, filterVars, reportVars >>

\* "yield item": the consumer, calculate_active_ratio, takes the next item
\* of the page
ListInventoryYield ==
    /\ ppc = "yield" /\ pending > 0
    /\ yielded' = yielded + 1
    /\ pending' = pending - 1
    /\ UNCHANGED << fn, ppc, page, acc, accIds, requests, fetched, maxTotal,
                    allFull, resp, derived, ret, err >>
    /\ UNCHANGED << versionVars, laterVars, normVars, filterVars, reportVars >>

\* the generator resumed after the last item of the page
ListInventoryResumes ==
    /\ ppc = "yield" /\ pending = 0
    /\ ListInventoryPageEnds(resp)
    /\ UNCHANGED << fn, acc, accIds, yielded, pending, requests, fetched,
                    maxTotal, resp, err >>
    /\ UNCHANGED << versionVars, laterVars, normVars, filterVars, reportVars >>

NextPage ==
    \/ RequestFails
    \/ PatchReportIteration
    \/ ListPatchTitlesIteration
    \/ ListInventoryIteration
    \/ ListInventoryYield
    \/ ListInventoryResumes

SpecPage == InitPage /\ [][NextPage]_vars

\* the loops are sequential code: an iteration that can run does run
SpecPageFair == SpecPage /\ WF_vars(NextPage)

(***************************************************************************)
(* The activity-window filter.  A device record is [id, lct]: id is its    *)
(* place in the report, lct its "lastContactTime" value:                   *)
(*   missing     the key is absent                                         *)
(*   null        None                                                      *)
(*   empty       ""                                                        *)
(*   number      a truthy value that is no str                             *)
(*   garbage     a str no parser accepts                                   *)
(*   iso_zulu    ISO-8601 ending in "Z"                  (aware)           *)
(*   iso_naive   ISO-8601 without an offset              (naive)           *)
(*   fmt_offset  accepted only by "%Y-%m-%dT%H:%M:%S%z"  (aware)           *)
(*   fmt_naive   accepted only by "%Y-%m-%dT%H:%M:%S"    (naive)           *)
(* age is now minus the instant the value names (read as UTC when naive),  *)
(* counted in half days, so that timedelta.days rounds.                    *)
(***************************************************************************)
FalsyKinds == { "missing", "null", "empty" }
RejectedKinds == { "number", "garbage" }
IsoKinds == { "iso_zulu", "iso_naive" }
FmtKinds == { "fmt_offset", "fmt_naive" }

Ages == -1..(2 * MaxDays + 2)

LctValues ==
    { [kind |-> k, age |-> 0] : k \in FalsyKinds \cup RejectedKinds }
    \cup { [kind |-> k, age |-> g] : k \in IsoKinds \cup FmtKinds, g \in Ages }

\* the report whose records carry the lastContactTime values f[1], f[2], ...
Report(f) == [i \in 1..Len(f) |-> [id |-> i, lct |-> f[i]]]

\* what a call of parse_last_contact gives: an exception, None, or a datetime
Raised == [raised |-> TRUE, isNone |-> FALSE, aware |-> FALSE, age |-> 0]
ReturnsNone == [raised |-> FALSE, isNone |-> TRUE, aware |-> FALSE, age |-> 0]
Datetime(aware, age) ==
    [raised |-> FALSE, isNone |-> FALSE, aware |-> aware, age |-> age]

\* parse_last_contact with no except clause around the parsers
parse_last_contact_uncaught(s) ==
    IF s.kind \in FalsyKinds THEN ReturnsNone
    ELSE IF s.kind \in IsoKinds THEN Datetime(s.kind = "iso_zulu", s.age)
    ELSE Raised

\* parse_last_contact(s): "if not s", then datetime.fromisoformat, then, on any
\* exception, each strptime format in turn, then None
parse_last_contact(s) ==
    IF s.kind \in FalsyKinds THEN ReturnsNone
    ELSE IF s.kind \in IsoKinds THEN Datetime(s.kind = "iso_zulu", s.age)
    ELSE IF s.kind = "fmt_offset" THEN Datetime(TRUE, s.age)
    ELSE IF s.kind = "fmt_naive" THEN Datetime(FALSE, s.age)
    ELSE ReturnsNone

\* (now - lct).days: whole days, rounded down
TimedeltaDays(age) == age \div 2

\* the body of the loop of filter_active_rows: whether r is appended to out
KeepsRow(r, d) ==
    LET lct == parse_last_contact(r.lct)
    IN  /\ ~lct.isNone
        /\ TimedeltaDays(lct.age) <= d

\* filter_active_rows that lets days = 0 through to the loop
filter_active_rows_negative_only(rs, d) ==
    IF d < 0 THEN rs ELSE SelectSeq(rs, LAMBDA r : KeepsRow(r, d))

\* filter_active_rows(rows, days), when no call in it raises
filter_active_rows(rs, d) ==
    IF d <= 0 THEN rs ELSE SelectSeq(rs, LAMBDA r : KeepsRow(r, d))

\* whether a call of filter_active_rows ends in an exception
FilterRaises(rs, d) ==
    d > 0 /\ \E i \in 1..Len(rs) : parse_last_contact(rs[i].lct).raised

InitFilter ==
    /\ \E k \in 0..MaxRows : \E f \in [1..k -> LctValues] : rows = Report(f)
    /\ days \in -1..MaxDays
    /\ fpc = "ready" /\ out = << >>
    /\ IdleVersion /\ IdleNorm /\ IdleLater /\ IdlePage /\ IdleReport

FilterActiveRows ==
    /\ fpc = "ready"
    /\ IF FilterRaises(rows, days)
       THEN fpc' = "raised" /\ out' = << >>
       ELSE fpc' = "returned" /\ out' = filter_active_rows(rows, days)
    /\ UNCHANGED << rows, days, versionVars, laterVars, normVars, pageVars, reportVars >>

NextFilter == FilterActiveRows

SpecFilter == InitFilter /\ [][NextFilter]_vars

(***************************************************************************)
(* read_titles_file.  A titles file is [kind, hasTitle, hasMin, rows]:     *)
(* kind "missing" (no such path), "csv" or "txt"; for a CSV hasTitle and   *)
(* hasMin say whether the header names the columns title and min_version,  *)
(* and rows[i] holds the text of the two cells of data line i; for a text  *)
(* file rows[i].title is line i.                                           *)
(*                                                                         *)
(* pandas.read_csv reads an empty cell as NaN and infers a type for each   *)
(* column: int64 when every cell is an integer, float64 when every cell is *)
(* a number or empty, object (the text as written) otherwise.  iterrows()  *)
(* hands out each row as one Series, of dtype float64 when every column is *)
(* numeric and one of them is float64.                                     *)
(***************************************************************************)

AllDigits(c) == \A i \in 1..Len(c) : IsDigit(c[i])
IsIntText(c) == c # << >> /\ AllDigits(c)
IsFloatText(c) ==
    /\ Len(SplitDots(c)) = 2
    /\ AllDigits(SplitDots(c)[1]) /\ AllDigits(SplitDots(c)[2])
    /\ Len(c) > 1

\* the dtype read_csv infers for a column of cells
Dtype(cells) ==
    IF \A i \in 1..Len(cells) : cells[i] = << >> THEN "float64"
    ELSE IF \A i \in 1..Len(cells) : IsIntText(cells[i]) THEN "int64"
    ELSE IF \A i \in 1..Len(cells) :
                cells[i] = << >> \/ IsIntText(cells[i]) \/ IsFloatText(cells[i])
         THEN "float64"
         ELSE "object"

\* the data lines read_csv keeps: with a single column an empty line is
\* skipped (skip_blank_lines)
CsvRows(f) ==
    IF f.hasMin THEN f.rows
    ELSE SelectSeq(f.rows, LAMBDA r : r.title # << >>)

\* the columns of the frame
TitleColumn(f) == [i \in 1..Len(CsvRows(f)) |-> CsvRows(f)[i].title]
MinColumn(f) == [i \in 1..Len(CsvRows(f)) |-> CsvRows(f)[i].min_version]

\* whether iterrows() yields float64 rows
RowIsFloat(f) ==
    /\ Dtype(TitleColumn(f)) # "object"
    /\ f.hasMin => Dtype(MinColumn(f)) # "object"
    /\ \/ Dtype(TitleColumn(f)) = "float64"
       \/ f.hasMin /\ Dtype(MinColumn(f)) = "float64"

\* the value row[...] of cell i of a column: NaN, an int, a float or a str
CellValue(f, cells, i) ==
    IF cells[i] = << >> THEN [kind |-> "nan", text |-> << >>]
    ELSE IF Dtype(cells) = "object" THEN [kind |-> "str", text |-> cells[i]]
    ELSE IF Dtype(cells) = "float64" \/ RowIsFloat(f)
         THEN [kind |-> "float", text |-> cells[i]]
         ELSE [kind |-> "int", text |-> cells[i]]

\* a run of digits without its leading zeros, one digit at least
RECURSIVE IntStr(_)
IntStr(c) ==
    IF Len(c) > 1 /\ Head(c) = "0" THEN IntStr(Tail(c))
    ELSE IF c = << >> THEN << "0" >> ELSE c

\* a run of digits without its trailing zeros, one digit at least
RECURSIVE FracStr(_)
FracStr(c) ==
    IF Len(c) > 1 /\ c[Len(c)] = "0" THEN FracStr(SubSeq(c, 1, Len(c) - 1))
    ELSE IF c = << >> THEN << "0" >> ELSE c

\* str() of the float a cell's text denotes: "1" is 1.0, "1.10" is 1.1
FloatStr(c) ==
    IF IsIntText(c) THEN IntStr(c) \o << ".", "0" >>
    ELSE IntStr(SplitDots(c)[1]) \o << "." >> \o FracStr(SplitDots(c)[2])

\* whether the number a cell's text denotes is 0
IsZeroText(c) == \A i \in 1..Len(c) : c[i] \in { "0", "." }

\* bool(v): NaN is true, a number is true unless it is 0, a str unless empty
Truthy(v) ==
    CASE v.kind = "nan" -> TRUE
      [] v.kind = "str" -> v.text # << >>
      [] OTHER -> ~IsZeroText(v.text)

\* str(v)
Str(v) ==
    CASE v.kind = "nan" -> << "n", "a", "n" >>
      [] v.kind = "str" -> v.text
      [] v.kind = "int" -> IntStr(v.text)
      [] OTHER -> FloatStr(v.text)

\* str(row["title"]).strip()
CsvTitle(f, i) == strip(Str(CellValue(f, TitleColumn(f), i)))

\* str(row.get("min_version", "") or "").strip()
CsvMinVersion(f, i) ==
    IF ~f.hasMin THEN << >>
    ELSE IF Truthy(CellValue(f, MinColumn(f), i))
         THEN strip(Str(CellValue(f, MinColumn(f), i)))
         ELSE << >>

\* the exception read_titles_file raises, "" when it returns
ReadTitlesFileRaises(f) ==
    IF f.kind = "missing" THEN "FileNotFoundError"
    ELSE IF f.kind = "csv" /\ ~f.hasTitle THEN "ValueError"
    ELSE ""

\* read_titles_file(path), when it raises nothing: the TitleSelections
read_titles_file(f) ==
    IF f.kind = "csv"
    THEN [i \in 1..Len(CsvRows(f)) |->
            [id |-> 0, title |-> CsvTitle(f, i),
             min_version |-> CsvMinVersion(f, i)]]
    ELSE LET lines == SelectSeq(f.rows, LAMBDA r : strip(r.title) # << >>)
         IN  [i \in 1..Len(lines) |->
                [id |-> 0, title |-> strip(lines[i].title),
                 min_version |-> << >>]]

(***************************************************************************)
(* The global default of main: --global-min-version fills the selections   *)
(* whose min_version is empty or blank.                                    *)
(***************************************************************************)
\* the global default written over every selection
apply_global_min_version_to_all(sels, g) ==
    IF g = << >> THEN sels
    ELSE [i \in 1..Len(sels) |-> [sels[i] EXCEPT !.min_version = strip(g)]]

apply_global_min_version(sels, g) ==
    IF g = << >> THEN sels
    ELSE [i \in 1..Len(sels) |->
            IF ~(sels[i].min_version # << >>
                 /\ strip(sels[i].min_version) # << >>)
            THEN [sels[i] EXCEPT !.min_version = strip(g)]
            ELSE sels[i]]

(***************************************************************************)
(* build_baseline_summary.  A device record is [id, lct, version]; version *)
(* is [present, text], present FALSE for a record without a version (the   *)
(* key absent, or None).  A percentage is held in hundredths.              *)
(***************************************************************************)
\* round(num / den) to the nearest integer, a tie to the even one
RoundHalfEven(num, den) ==
    LET quot == num \div den
        r == num % den
    IN  IF 2 * r > den THEN quot + 1
        ELSE IF 2 * r < den THEN quot
        ELSE IF quot % 2 = 0 THEN quot ELSE quot + 1

\* round(part / whole * 100.0, 2) if whole else 0.0, in hundredths
Percent(part, whole) ==
    IF whole = 0 THEN 0 ELSE RoundHalfEven(part * 10000, whole)

None_text == << "(", "n", "o", "n", "e", ")" >>

\* (r.get("version") or "").strip()
InstalledVersion(r) == IF r.version.present THEN strip(r.version.text) ELSE << >>

\* rows_active
RowsActive(rs, d) == IF d > 0 THEN filter_active_rows(rs, d) ELSE rs

\* the detail rows of build_baseline_summary
DetailRows(t, rs, d, pkg) ==
    [i \in 1..Len(RowsActive(rs, d)) |->
        [DeviceID |-> RowsActive(rs, d)[i].id,
         InstalledVersion |-> InstalledVersion(RowsActive(rs, d)[i]),
         Compliant |-> version_gte(InstalledVersion(RowsActive(rs, d)[i]),
                                   t.min_version, pkg)]]

\* build_baseline_summary with Non-Compliant counted against len(rows_all)
build_baseline_summary_all_rows(t, rs, d, pkg) ==
    LET detail    == DetailRows(t, rs, d, pkg)
        compliant == Len(SelectSeq(detail, LAMBDA x : x.Compliant))
        n_active  == Len(RowsActive(rs, d))
    IN  [Title |-> t.title,
         Baseline |-> IF t.min_version # << >> THEN t.min_version ELSE None_text,
         ActiveDevices |-> n_active,
         Compliant |-> compliant,
         NonCompliant |-> Max(Len(rs) - compliant, 0),
         CompliancePct |-> Percent(compliant, n_active)]

\* the summary of build_baseline_summary(title, rows_all, days)
build_baseline_summary(t, rs, d, pkg) ==
    LET detail    == DetailRows(t, rs, d, pkg)
        compliant == Len(SelectSeq(detail, LAMBDA x : x.Compliant))
        n_active  == Len(RowsActive(rs, d))
    IN  [Title |-> t.title,
         Baseline |-> IF t.min_version # << >> THEN t.min_version ELSE None_text,
         ActiveDevices |-> n_active,
         Compliant |-> compliant,
         NonCompliant |-> Max(n_active - compliant, 0),
         CompliancePct |-> Percent(compliant, n_active)]

(***************************************************************************)
(* A titles file read, and the summary of one of its selections built from *)
(* a patch report, as main does for a selection that resolves.             *)
(***************************************************************************)
\* the text of the min_version cells
MinCells ==
    { << >>, << "1" >>, << "1", ".", "0", ".", "1", " " >> }

SummaryFiles ==
    { [kind |-> "csv", hasTitle |-> TRUE, hasMin |-> TRUE,
       rows |-> [i \in 1..Len(c) |-> [title |-> << "x" >>, min_version |-> c[i]]]] :
        c \in SeqsUpTo(MinCells, MaxFileRows) }
    \cup
    { [kind |-> "csv", hasTitle |-> TRUE, hasMin |-> FALSE,
       rows |-> [i \in 1..k |-> [title |-> << "x" >>, min_version |-> << >>]]] :
        k \in 0..MaxFileRows }

GlobalDefaults == { << >>, << " ", "0" >> }

\* the "version" values of the device records
DeviceVersions ==
    { [present |-> FALSE, text |-> << >>],
      [present |-> TRUE, text |-> << "1" >>],
      [present |-> TRUE, text |-> << "1", ".", "0", " " >>] }

\* the "lastContactTime" values of the device records: none, one of today,
\* one older than the widest window
DeviceContacts ==
    { [kind |-> "missing", age |-> 0], [kind |-> "iso_zulu", age |-> 0],
      [kind |-> "iso_naive", age |-> 2 * MaxDays + 2] }

\* the patch report whose records carry the values f[1], f[2], ...
PatchReport(f) ==
    [i \in 1..Len(f) |-> [id |-> i, lct |-> f[i][1], version |-> f[i][2]]]

InitSummary ==
    /\ titles_file \in SummaryFiles
    /\ global_min_version \in GlobalDefaults
    /\ interactive = FALSE /\ export_titles = FALSE
    /\ \E k \in 0..MaxRows :
          \E f \in [1..k -> DeviceContacts \X DeviceVersions] :
              rows_all = PatchReport(f)
    /\ sum_days \in { 0, MaxDays }
    /\ file_sels = << >> /\ title = NoTitle /\ spc = "ready"
    /\ summary = NoSummary /\ detail_rows = << >>
    /\ a = << >> /\ b = << >> /\ PKG_VERSION \in BOOLEAN
    /\ vpc = "idle" /\ result = FALSE
    /\ IdleNorm /\ IdleLater /\ IdlePage /\ IdleFilter /\ IdleRatio /\ IdleMain

\* file_sels = read_titles_file(path)
ReadTitlesFile ==
    /\ spc = "ready"
    /\ file_sels' = read_titles_file(titles_file)
    /\ spc' = "read"
    /\ UNCHANGED << title, rows_all, sum_days, summary, detail_rows, argsVars,
                    versionVars, laterVars, normVars, pageVars, filterVars, ratioVars,
                    mainVars >>

\* the global default, then build_baseline_summary(s, rows, args.days) for
\* one selection s
BuildBaselineSummary ==
    /\ spc = "read"
    /\ \E i \in 1..Len(file_sels) :
          LET s == apply_global_min_version(file_sels, global_min_version)[i]
          IN  /\ title' = s
              /\ summary' = build_baseline_summary(s, rows_all, sum_days,
                                                   PKG_VERSION)
              /\ detail_rows' = DetailRows(s, rows_all, sum_days, PKG_VERSION)
    /\ spc' = "built"
    /\ UNCHANGED << file_sels, rows_all, sum_days, argsVars, versionVars, laterVars,
                    normVars, pageVars, filterVars, ratioVars, mainVars >>

NextSummary == ReadTitlesFile \/ BuildBaselineSummary

SpecSummary == InitSummary /\ [][NextSummary]_vars

(***************************************************************************)
(* Fleet-ratio mode: calculate_active_ratio over the inventory that        *)
(* list_inventory yields, item by item, then one row of                    *)
(* build_v2_overall_dataframe.  An inventory item carries a                *)
(* general.lastContactTime value of the kinds of LctValues.  The ratio     *)
(* active / total is kept as the pair of its terms.                        *)
(***************************************************************************)
\* "hostsOnLatestVersion" and "hostsOutOfDate" of a vendor patch summary
HostCounts == { 0, 1, 10, 40 }

\* the body of the loop of calculate_active_ratio: whether item counts as
\* active.  Only datetime.fromisoformat is tried, and every exception is
\* swallowed.
RatioCountsItem(item, d) ==
    /\ item.kind \in IsoKinds
    /\ TimedeltaDays(item.age) <= d

\* as ScaledCount, scaling by total / active
ScaledCountByInverseRatio(hosts, act, tot) ==
    IF act = 0 THEN 0 ELSE RoundHalfEven(hosts * tot, act)

\* int(round(hosts * active_ratio)), active_ratio = (active / total) if total
\* else 0.0.  Python's round() takes a tie to the even integer; for the counts
\* of HostCounts and inventories up to MaxInventory + 1 the double product
\* rounds as the exact quotient does.
ScaledCount(hosts, act, tot) ==
    IF tot = 0 THEN 0 ELSE RoundHalfEven(hosts * act, tot)

\* the row build_v2_overall_dataframe appends for patch summary s
OverallRow(s, act, tot) ==
    LET hosts_patched == s.hostsOnLatestVersion
        hosts_out     == s.hostsOutOfDate
        adj_patched   == ScaledCount(hosts_patched, act, tot)
        adj_out       == ScaledCount(hosts_out, act, tot)
    IN  [HostsAll |-> hosts_patched + hosts_out,
         PatchedAll |-> hosts_patched,
         OutOfDateAll |-> hosts_out,
         CompletionAll |-> Percent(hosts_patched, hosts_patched + hosts_out),
         PatchedActive |-> adj_patched,
         OutOfDateActive |-> adj_out,
         CompletionActive |-> Percent(adj_patched, adj_patched + adj_out)]

InitRatio ==
    /\ ratio_total = 0 /\ ratio_active = 0
    /\ ratio_days \in 0..MaxDays
    /\ rpc = "counting"
    /\ patch_summary = NoPatchSummary /\ overall = NoOverall
    /\ IdleVersion /\ IdleNorm /\ IdleLater /\ IdlePage /\ IdleFilter
    /\ IdleArgs /\ IdleSummary /\ IdleMain

\* one iteration of "for item in inventory"
CountInventoryItem ==
    /\ rpc = "counting" /\ ratio_total < MaxInventory
    /\ \E item \in LctValues :
          /\ ratio_total' = ratio_total + 1
          /\ ratio_active' = ratio_active
                               + (IF RatioCountsItem(item, ratio_days) THEN 1 ELSE 0)
    /\ UNCHANGED << ratio_days, rpc, patch_summary, overall, versionVars, laterVars,
                    normVars, pageVars, filterVars, argsVars, summaryVars,
                    mainVars >>

\* the inventory is exhausted: return total, active, ratio
ReturnActiveRatio ==
    /\ rpc = "counting"
    /\ rpc' = "returned"
    /\ UNCHANGED << ratio_total, ratio_active, ratio_days, patch_summary,
                    overall, versionVars, laterVars, normVars, pageVars, filterVars,
                    argsVars, summaryVars, mainVars >>

\* build_v2_overall_dataframe([s], ratio) for a vendor patch summary s
BuildOverallRow ==
    /\ rpc = "returned"
    /\ \E hp \in HostCounts, ho \in HostCounts :
          /\ patch_summary' = [hostsOnLatestVersion |-> hp, hostsOutOfDate |-> ho]
          /\ overall' = OverallRow(patch_summary', ratio_active, ratio_total)
    /\ rpc' = "built"
    /\ UNCHANGED << ratio_total, ratio_active, ratio_days, versionVars, laterVars,
                    normVars, pageVars, filterVars, argsVars, summaryVars,
                    mainVars >>

NextRatio == CountInventoryItem \/ ReturnActiveRatio \/ BuildOverallRow

SpecRatio == InitRatio /\ [][NextRatio]_vars

(***************************************************************************)
(* main.  The backend holds the catalog that list_patch_titles returns     *)
(* (entries with an id, sorted by lowered title); each request the run     *)
(* issues succeeds or is answered with a failure status, which the client  *)
(* turns into a RuntimeError.  calls lists the requests issued, written    *)
(* the files written, rc how the run ended: "0", "1", "2" (the value main  *)
(* returns) or "raised" (an exception left main).                          *)
(***************************************************************************)
\* str.lower()
LowerStr(t) == [i \in 1..Len(t) |-> Lower(t[i])]

CatalogTitles == { << "x" >>, << "X", "x" >> }

\* the lists list_patch_titles can return: ids are those of distinct
\* configurations, the order is that of results.sort by lowered title
Catalogs ==
    { c \in SeqsUpTo([id : 1..MaxTitles, title : CatalogTitles], MaxTitles) :
        /\ \A i, j \in 1..Len(c) : i # j => c[i].id # c[j].id
        /\ \A i \in 1..(Len(c) - 1) :
              StrCmp(LowerStr(c[i].title), LowerStr(c[i + 1].title)) <= 0 }

\* the text of the title cells, or lines, of a titles file
TitleCells == { << >>, << "x" >>, << "X", " " >> }
\* the text of its min_version cells
MainMinCells == { << >>, << "1" >> }

FileRows(withMin) ==
    SeqsUpTo([title : TitleCells,
              min_version : IF withMin THEN MainMinCells ELSE { << >> }],
             MaxFileRows)

\* the values of --titles-file: not given, a path that does not exist, a CSV
\* without a title column, a CSV with or without a min_version column, a
\* text file
MainFiles ==
    { NoFile,
      [kind |-> "missing", hasTitle |-> FALSE, hasMin |-> FALSE, rows |-> << >>],
      [kind |-> "csv", hasTitle |-> FALSE, hasMin |-> TRUE, rows |-> << >>] }
    \cup { [kind |-> "csv", hasTitle |-> TRUE, hasMin |-> TRUE, rows |-> r] :
             r \in FileRows(TRUE) }
    \cup { [kind |-> k, hasTitle |-> TRUE, hasMin |-> FALSE, rows |-> r] :
             k \in { "csv", "txt" }, r \in FileRows(FALSE) }

\* bool(args.titles_file), bool(args.global_min_version)
FileSupplied == titles_file.kind # "none"
GlobalSupplied == global_min_version # << >>

\* as use_baseline_mode, without args.global_min_version
use_baseline_mode_flags_only == interactive \/ FileSupplied

\* use_baseline_mode
use_baseline_mode == interactive \/ FileSupplied \/ GlobalSupplied

\* the branch "elif args.interactive" taken whenever --interactive is given
PickerChosenIgnoringFile == interactive

\* the branches of "Build selections": if args.titles_file / elif
\* args.interactive / else
FileChosen == FileSupplied
PickerChosen == ~FileSupplied /\ interactive
DefaultChosen == ~FileSupplied /\ ~interactive

\* name_to_id.get(key): the dict comprehension keeps the last entry of a key;
\* 0 stands for None
NameToId(cat, key) ==
    LET S == { i \in 1..Len(cat) : LowerStr(cat[i].title) = key }
    IN  IF S = { } THEN 0
        ELSE cat[CHOOSE i \in S : \A j \in S : j <= i].id

\* the loop of resolve_selections_from_file with the names compared as written
resolve_case_sensitive(sels, cat) ==
    LET found == SelectSeq(sels, LAMBDA x :
                    \E i \in 1..Len(cat) : cat[i].title = x.title)
    IN  [i \in 1..Len(found) |->
            [id |-> NameToId(cat, LowerStr(found[i].title)),
             title |-> found[i].title,
             min_version |-> found[i].min_version]]

\* the loop of resolve_selections_from_file over file_sels, all_titles the
\* catalog it fetched
resolve(sels, cat) ==
    LET found == SelectSeq(sels, LAMBDA x : NameToId(cat, LowerStr(x.title)) # 0)
    IN  [i \in 1..Len(found) |->
            [id |-> NameToId(cat, LowerStr(found[i].title)),
             title |-> found[i].title,
             min_version |-> found[i].min_version]]

\* "Dedup" of interactive_select_titles: the first selection of each id
RECURSIVE dedup(_)
dedup(sel) ==
    IF sel = << >> THEN << >>
    ELSE LET d == dedup(SubSeq(sel, 1, Len(sel) - 1))
             x == sel[Len(sel)]
         IN  IF \E i \in 1..Len(d) : d[i].id = x.id THEN d ELSE Append(d, x)

\* what the user types at a "Baseline for ..." prompt
BaselineInputs == { << >>, << "1", " " >> }

\* per_title_detail[key] = ...: the keys of the dict, in insertion order
SetKey(keys, key) ==
    IF \E i \in 1..Len(keys) : keys[i] = key THEN keys ELSE Append(keys, key)

Call(op, id) == [op |-> op, id |-> id]

InitMain ==
    /\ catalog \in Catalogs
    /\ titles_file \in MainFiles
    /\ interactive \in BOOLEAN
    /\ global_min_version \in GlobalDefaults
    /\ export_titles \in BOOLEAN
    /\ all_titles = << >> /\ chosen = << >> /\ selections = << >>
    /\ mpc = "start" /\ calls = << >> /\ written = { } /\ rc = "none"
    /\ path = << >> /\ idx = 0 /\ failed = << >>
    /\ baseline_summary_rows = << >> /\ per_title_detail = << >>
    /\ summaries = << >>
    /\ IdleVersion /\ IdleNorm /\ IdleLater /\ IdlePage /\ IdleFilter
    /\ IdleSummary /\ IdleRatio

\* the run ends: main returns code, or an exception leaves it
Ends(code) == mpc' = "exit" /\ rc' = code

\* all_titles = client.list_patch_titles()
ListPatchTitles ==
    /\ mpc = "start"
    /\ calls' = Append(calls, Call("list_patch_titles", 0))
    /\ \/ /\ Ends("raised")
          /\ failed' = Append(failed, Call("list_patch_titles", 0))
          /\ UNCHANGED all_titles
       \/ /\ all_titles' = catalog
          /\ mpc' = "export"
          /\ UNCHANGED << rc, failed >>
    /\ UNCHANGED << catalog, chosen, selections, written, path, idx,
                    baseline_summary_rows, per_title_detail, summaries,
                    argsVars, summaryVars, ratioVars, versionVars, laterVars, normVars,
                    pageVars, filterVars >>

\* "if args.export_titles", then "Decide mode"
ExportTitles ==
    /\ mpc = "export"
    /\ written' = IF export_titles THEN written \cup { "titles_csv" } ELSE written
    /\ mpc' = IF use_baseline_mode THEN "select" ELSE "inventory"
    /\ UNCHANGED << catalog, all_titles, chosen, selections, calls, rc, path,
                    idx, failed, baseline_summary_rows, per_title_detail,
                    summaries, argsVars, summaryVars, ratioVars, versionVars, laterVars,
                    normVars, pageVars, filterVars >>

\* the selections are built: the global default is applied, and the baseline
\* loop entered
Selected(sels) ==
    /\ chosen' = sels
    /\ selections' = apply_global_min_version(sels, global_min_version)
    /\ mpc' = IF sels = << >> THEN "write" ELSE "baseline"
    /\ idx' = 1
    /\ UNCHANGED rc

\* selections = resolve_selections_from_file(client, args.titles_file)
ResolveSelectionsFromFile ==
    /\ mpc = "select" /\ FileChosen
    /\ path' = Append(path, "file")
    /\ IF ReadTitlesFileRaises(titles_file) # ""
       THEN /\ Ends("raised")
            /\ UNCHANGED << file_sels, calls, failed, chosen, selections, idx >>
       ELSE /\ file_sels' = read_titles_file(titles_file)
            /\ IF file_sels' = << >>
               THEN /\ Ends("1")
                    /\ UNCHANGED << calls, failed, chosen, selections, idx >>
               ELSE /\ calls' = Append(calls, Call("list_patch_titles", 0))
                    /\ \/ /\ Ends("raised")
                          /\ failed' = Append(failed, Call("list_patch_titles", 0))
                          /\ UNCHANGED << chosen, selections, idx >>
                       \/ /\ resolve(file_sels', catalog) = << >>
                          /\ Ends("1")
                          /\ UNCHANGED << failed, chosen, selections, idx >>
                       \/ /\ resolve(file_sels', catalog) # << >>
                          /\ Selected(resolve(file_sels', catalog))
                          /\ UNCHANGED failed
    /\ UNCHANGED << catalog, all_titles, written, baseline_summary_rows,
                    per_title_detail, summaries, argsVars, title, rows_all,
                    sum_days, spc, summary, detail_rows, ratioVars,
                    versionVars, laterVars, normVars, pageVars, filterVars >>

\* selections = interactive_select_titles(all_titles): the user's commands
\* select catalog entries, in any order and any number of times, and a
\* baseline is typed for each one kept
InteractiveSelectTitles ==
    /\ mpc = "select" /\ PickerChosen
    /\ path' = Append(path, "picker")
    /\ \E ps \in SeqsUpTo(1..Len(all_titles), MaxPicks) :
          LET sel == [i \in 1..Len(ps) |->
                             [id |-> all_titles[ps[i]].id,
                              title |-> all_titles[ps[i]].title,
                              min_version |-> << >>]]
              kept  == dedup(sel)
          IN  \E mv \in [1..Len(kept) -> BaselineInputs] :
                 IF kept = << >>
                 THEN /\ Ends("2")
                      /\ UNCHANGED << chosen, selections, idx >>
                 ELSE Selected([i \in 1..Len(kept) |->
                                  [kept[i] EXCEPT !.min_version = strip(mv[i])]])
    /\ UNCHANGED << catalog, all_titles, calls, written, failed,
                    baseline_summary_rows, per_title_detail, summaries,
                    argsVars, summaryVars, ratioVars, versionVars, laterVars, normVars,
                    pageVars, filterVars >>

\* selections = [TitleSelection(id, title, "") for t in all_titles]
FullCatalogDefault ==
    /\ mpc = "select" /\ DefaultChosen
    /\ path' = Append(path, "default")
    /\ Selected([i \in 1..Len(all_titles) |->
                    [id |-> all_titles[i].id, title |-> all_titles[i].title,
                     min_version |-> << >>]])
    /\ UNCHANGED << catalog, all_titles, calls, written, failed,
                    baseline_summary_rows, per_title_detail, summaries,
                    argsVars, summaryVars, ratioVars, versionVars, laterVars, normVars,
                    pageVars, filterVars >>

\* where a loop over n items goes after item idx
AfterItem(n, more, done) ==
    IF idx < n THEN mpc' = more /\ idx' = idx + 1
    ELSE mpc' = done /\ idx' = 1

\* the failure of the fetch leaving main after the report is written with
\* the summaries built so far
BaselineFetchFailsReportWritten ==
    /\ failed' = Append(failed, Call("patch_report", selections[idx].id))
    /\ Ends("raised")
    /\ written' = written \cup { "report" }
    /\ UNCHANGED << idx, baseline_summary_rows, per_title_detail >>

\* rows = client.patch_report(s.id) raises: nothing in the baseline loop
\* catches it
BaselineFetchFails ==
    /\ failed' = Append(failed, Call("patch_report", selections[idx].id))
    /\ Ends("raised")
    /\ UNCHANGED << written, idx, baseline_summary_rows, per_title_detail >>

\* one iteration of "for s in selections"
BaselineIteration ==
    /\ mpc = "baseline"
    /\ calls' = Append(calls, Call("patch_report", selections[idx].id))
    /\ \/ BaselineFetchFails
       \/ /\ baseline_summary_rows' =
                Append(baseline_summary_rows, selections[idx])
          /\ per_title_detail' = SetKey(per_title_detail, selections[idx].title)
          /\ AfterItem(Len(selections), "baseline", "write")
          /\ UNCHANGED << written, rc, failed >>
    /\ UNCHANGED << catalog, all_titles, chosen, selections, path,
                    summaries, argsVars, summaryVars, ratioVars, versionVars, laterVars,
                    normVars, pageVars, filterVars >>

\* inv = client.list_inventory(...); calculate_active_ratio(inv, args.days):
\* a failure of the listing leaves main
ListInventory ==
    /\ mpc = "inventory"
    /\ calls' = Append(calls, Call("list_inventory", 0))
    /\ \/ /\ Ends("raised")
          /\ failed' = Append(failed, Call("list_inventory", 0))
          /\ UNCHANGED idx
       \/ /\ mpc' = IF all_titles = << >> THEN "write" ELSE "summaries"
          /\ idx' = 1
          /\ UNCHANGED << rc, failed >>
    /\ UNCHANGED << catalog, all_titles, chosen, selections, written, path,
                    baseline_summary_rows, per_title_detail, summaries,
                    argsVars, summaryVars, ratioVars, versionVars, laterVars, normVars,
                    pageVars, filterVars >>

\* one iteration of "for t in all_titles" around client.patch_summary
PatchSummaryIteration ==
    /\ mpc = "summaries"
    /\ calls' = Append(calls, Call("patch_summary", all_titles[idx].id))
    /\ \/ /\ failed' = Append(failed, Call("patch_summary", all_titles[idx].id))
          /\ UNCHANGED summaries
       \/ /\ summaries' = Append(summaries, all_titles[idx].id)
          /\ UNCHANGED failed
    /\ AfterItem(Len(all_titles), "summaries", "details")
    /\ UNCHANGED << catalog, all_titles, chosen, selections, written, rc, path,
                    baseline_summary_rows, per_title_detail, argsVars,
                    summaryVars, ratioVars, versionVars, laterVars, normVars, pageVars,
                    filterVars >>

\* one iteration of "for t in all_titles[:50]" around client.patch_report
DetailIteration ==
    /\ mpc = "details"
    /\ calls' = Append(calls, Call("patch_report", all_titles[idx].id))
    /\ \/ /\ failed' = Append(failed, Call("patch_report", all_titles[idx].id))
          /\ UNCHANGED per_title_detail
       \/ /\ per_title_detail' = SetKey(per_title_detail, all_titles[idx].title)
          /\ UNCHANGED failed
    /\ AfterItem(Len(all_titles), "details", "write")
    /\ UNCHANGED << catalog, all_titles, chosen, selections, written, rc, path,
                    baseline_summary_rows, summaries, argsVars, summaryVars,
                    ratioVars, versionVars, laterVars, normVars, pageVars, filterVars >>

\* sheet_name[:31]
SheetNameMax == 31

\* re.sub(r"[^A-Za-z0-9 _-]", "_", sheet_name), one character
SafeChar(c) ==
    IF IsAlpha(c) \/ IsDigit(c) \/ c \in { " ", "_", "-" } THEN c ELSE "_"

\* safe or "Detail"
SafeSheetName(t) ==
    LET safe == SubSeq([i \in 1..Len(t) |-> SafeChar(t[i])], 1,
                       IF Len(t) < SheetNameMax THEN Len(t) ELSE SheetNameMax)
    IN  IF safe = << >> THEN << "D", "e", "t", "a", "i", "l" >> ELSE safe

\* df.to_excel(xw, sheet_name=...) of the sheets named names, one after the
\* other, into a workbook holding the sheets book: a sheet of the very same
\* name is written to again, and add_worksheet refuses (DuplicateWorksheetName)
\* a new name that equals an existing one ignoring case
RECURSIVE SheetsClash(_, _)
SheetsClash(book, names) ==
    IF names = << >> THEN FALSE
    ELSE IF names[1] \in book THEN SheetsClash(book, Tail(names))
    ELSE IF \E e \in book : LowerStr(e) = LowerStr(names[1]) THEN TRUE
    ELSE SheetsClash(book \cup { names[1] }, Tail(names))

\* the detail sheets of write_excel, in the order of per_title_detail.  (The
\* sheets before them, Report_Info to Baseline_Summary, have names that no
\* title of this model is sanitised to.)
DetailSheets(detail) == [i \in 1..Len(detail) |-> SafeSheetName(detail[i])]

\* write_excel(...); return 0.  When a sheet is refused the exception leaves
\* write_excel and main; the "with pd.ExcelWriter" block closes the
\* workbook on its way, which saves the sheets written so far.  (The file
\* system takes every write: an OSError of the writer is outside the inputs
\* of this model, as for the exported list of titles.)
WriteExcel ==
    /\ mpc = "write"
    /\ written' = written \cup { "report" }
    /\ IF SheetsClash({ }, DetailSheets(per_title_detail))
       THEN /\ Ends("raised")
            /\ failed' = Append(failed, Call("write_excel", 0))
       ELSE /\ Ends("0")
            /\ UNCHANGED failed
    /\ UNCHANGED << catalog, all_titles, chosen, selections, calls, path, idx,
                    baseline_summary_rows, per_title_detail,
                    summaries, argsVars, summaryVars, ratioVars, versionVars, laterVars,
                    normVars, pageVars, filterVars >>

NextMain ==
    \/ ListPatchTitles
    \/ ExportTitles
    \/ ResolveSelectionsFromFile
    \/ InteractiveSelectTitles
    \/ FullCatalogDefault
    \/ BaselineIteration
    \/ ListInventory
    \/ PatchSummaryIteration
    \/ DetailIteration
    \/ WriteExcel

SpecMain == InitMain /\ [][NextMain]_vars

(***************************************************************************)
(* process_compliance_reports of Scripts/jamf-compliance-report-monthly.py *)
(* (script = "monthly") and of                                             *)
(* Scripts/jamf_compliance_report_monthly_v2.1.py (script = "v2.1").       *)
(*                                                                         *)
(* A file of the input directory is a record: token is the date of the    *)
(* first date-time token YYYY-MM-DDThh_mm_ss of its name (0 without one),  *)
(* created and hour are the day and the hour of its creation time, and     *)
(* rows are the data lines of the CSV.  A date string YYYY-MM-DD is the    *)
(* number of its day: strings of that shape sort as their days do.  An     *)
(* instant is a number of hours.  The files of one directory are created   *)
(* at the same hour of the day, before or after the hour at which the      *)
(* script runs.  The columns Serial Number, Computer Name and Compliance - *)
(* Failed mSCP Results Count are present and the count is an integer in    *)
(* every line.                                                             *)
(***************************************************************************)
Scripts == { "monthly", "v2.1" }
Serials == { "SN1", "SN2" }
ComputerNames == { "Mac" }
FailedCounts == { 0, 5 }

\* dated_files[-4:]
KeepRecent == 4
\* the day of datetime.now() - timedelta(days=TIMEFRAME_DAYS)
CutoffDay == 1
HoursPerDay == 24
\* the hour of the day of datetime.now()
NowHour == 12
\* the hours of the day at which files are created
CreationHours == { 6, 18 }

SnapshotRows ==
    [serial : Serials, computer : ComputerNames, failed : FailedCounts]

\* match.group(1) of the date-time token, or None (0)
extract_date_from_filename(f) == f.token

\* datetime.fromtimestamp(stat.st_birthtime)
get_file_creation_date(f) == f.created * HoursPerDay + f.hour

\* get_file_creation_date(f).strftime("%Y-%m-%d")
get_date_string_from_file(f) == get_file_creation_date(f) \div HoursPerDay

\* datetime.now() - timedelta(days=TIMEFRAME_DAYS)
cutoff_date == CutoffDay * HoursPerDay + NowHour

\* monthly: "if file_date"; v2.1: get_file_creation_date(f) >= cutoff_date
HasDateKey(s, f) ==
    IF s = "monthly" THEN extract_date_from_filename(f) # 0
    ELSE get_file_creation_date(f) >= cutoff_date

DateKey(s, f) ==
    IF s = "monthly" THEN extract_date_from_filename(f)
    ELSE get_date_string_from_file(f)

\* the (file, date) pairs appended to dated_files, in the order of the
\* listing; a file is named by its place in the listing
RECURSIVE DatedFilesFrom(_, _, _)
DatedFilesFrom(s, files, i) ==
    IF i > Len(files) THEN << >>
    ELSE IF HasDateKey(s, files[i])
         THEN << [file |-> i, date |-> DateKey(s, files[i])] >>
                \o DatedFilesFrom(s, files, i + 1)
         ELSE DatedFilesFrom(s, files, i + 1)

\* list.sort(key=lambda x: x[1]) is stable: x goes behind every pair whose
\* date is not greater
RECURSIVE InsertByDate(_, _)
InsertByDate(sorted, x) ==
    IF sorted = << >> THEN << x >>
    ELSE IF sorted[Len(sorted)].date <= x.date THEN Append(sorted, x)
         ELSE Append(InsertByDate(SubSeq(sorted, 1, Len(sorted) - 1), x),
                     sorted[Len(sorted)])

RECURSIVE SortByDate(_)
SortByDate(s) ==
    IF s = << >> THEN << >>
    ELSE InsertByDate(SortByDate(SubSeq(s, 1, Len(s) - 1)), s[Len(s)])

\* as MostRecent, with s[:4]
MostRecentOldestFirst(s) ==
    SubSeq(s, 1, IF Len(s) < KeepRecent THEN Len(s) ELSE KeepRecent)

\* s[-4:]
MostRecent(s) == SubSeq(s, Max(1, Len(s) - KeepRecent + 1), Len(s))

\* the exception raised before the workbook is created, "" when none is
SelectionRaises(s, files) ==
    IF files = << >> THEN "FileNotFoundError"
    ELSE IF DatedFilesFrom(s, files, 1) = << >>
         THEN (IF s = "monthly" THEN "ValueError" ELSE "FileNotFoundError")
         ELSE ""

\* the place of serial among the keys of compliance_history, 0 when absent
RECURSIVE KeyIndex(_, _)
KeyIndex(hist, serial) ==
    IF hist = << >> THEN 0
    ELSE IF hist[Len(hist)].serial = serial THEN Len(hist)
         ELSE KeyIndex(SubSeq(hist, 1, Len(hist) - 1), serial)

\* as UpdateHistory, without "if serial not in compliance_history"
UpdateHistoryAlwaysNewKey(hist, serial, date, failed_count) ==
    Append(hist, [serial |-> serial, history |-> (date :> failed_count)])

\* compliance_history[serial][file_date] = failed_count, a new key going
\* last in the dict
UpdateHistory(hist, serial, date, failed_count) ==
    LET k == KeyIndex(hist, serial)
    IN  IF k = 0
        THEN Append(hist,
                    [serial |-> serial, history |-> (date :> failed_count)])
        ELSE [hist EXCEPT ![k].history = (date :> failed_count) @@ @]

\* "for _, row in df.iterrows()" over the rows of one file
RECURSIVE ReadRows(_, _, _)
ReadRows(hist, rs, date) ==
    IF rs = << >> THEN hist
    ELSE UpdateHistory(ReadRows(hist, SubSeq(rs, 1, Len(rs) - 1), date),
                       rs[Len(rs)].serial, date, rs[Len(rs)].failed)

\* "for csv_file, file_date in dated_files" over the pairs df
RECURSIVE ReadFiles(_, _)
ReadFiles(files, df) ==
    IF df = << >> THEN << >>
    ELSE ReadRows(ReadFiles(files, SubSeq(df, 1, Len(df) - 1)),
                  files[df[Len(df)].file].rows, df[Len(df)].date)

\* computer_names[serial] = computer, the last one read staying
RECURSIVE NamesOfRows(_, _)
NamesOfRows(names, rs) ==
    IF rs = << >> THEN names
    ELSE (rs[Len(rs)].serial :> rs[Len(rs)].computer)
           @@ NamesOfRows(names, SubSeq(rs, 1, Len(rs) - 1))

RECURSIVE NamesOfFiles(_, _)
NamesOfFiles(files, df) ==
    IF df = << >> THEN << >>
    ELSE NamesOfRows(NamesOfFiles(files, SubSeq(df, 1, Len(df) - 1)),
                     files[df[Len(df)].file].rows)

\* set().union(*[h.keys() for h in compliance_history.values()])
HistoryDates(hist) == UNION { DOMAIN hist[i].history : i \in 1..Len(hist) }

\* sorted(list(S))
RECURSIVE Sorted(_)
Sorted(S) ==
    IF S = { } THEN << >>
    ELSE LET m == CHOOSE x \in S : \A y \in S : x <= y
         IN  << m >> \o Sorted(S \ { m })

\* a cell of the trend table: np.nan, or the number num / den
NaN == [nan |-> TRUE, num |-> 0, den |-> 1]
Number(num, den) == [nan |-> FALSE, num |-> num, den |-> den]

\* row_data of one serial: history.get(date, np.nan) for every date
RowData(entry, names, ds) ==
    [serial |-> entry.serial,
     computer |-> IF entry.serial \in DOMAIN names THEN names[entry.serial]
                  ELSE "N/A",
     cells |-> [d \in ds |-> IF d \in DOMAIN entry.history
                              THEN Number(entry.history[d], 1)
                              ELSE NaN]]

RECURSIVE SumOf(_, _)
SumOf(hist, d) ==
    IF hist = << >> THEN 0
    ELSE SumOf(SubSeq(hist, 1, Len(hist) - 1), d)
           + (IF d \in DOMAIN hist[Len(hist)].history
              THEN hist[Len(hist)].history[d] ELSE 0)

\* the values of date d that are neither None nor NaN
Present(hist, d) == { i \in 1..Len(hist) : d \in DOMAIN hist[i].history }

\* as MeanOf, over every entity, an absent one counting as zero
MeanOfAllEntities(hist, d) ==
    IF hist = << >> THEN NaN ELSE Number(SumOf(hist, d), Len(hist))

\* np.mean(values) if values else np.nan
MeanOf(hist, d) ==
    IF Present(hist, d) = { } THEN NaN
    ELSE Number(SumOf(hist, d), Cardinality(Present(hist, d)))

AverageLabel == "Average Failed Checks"

\* the averages row
Averages(hist, ds) ==
    [serial |-> AverageLabel, computer |-> "",
     cells |-> [d \in ds |-> MeanOf(hist, d)]]

\* trend_data: one row_data per key of compliance_history, then averages
TrendData(hist, names, ds) ==
    Append([i \in 1..Len(hist) |-> RowData(hist[i], names, ds)],
           Averages(hist, ds))

\* the files of a directory: names with and without a date token, any
\* creation day
FileOf(s, named, key, h, rs) ==
    [token |-> IF s = "monthly" THEN key ELSE (IF named THEN key ELSE 0),
     created |-> IF s = "monthly" THEN MaxDateKey ELSE key,
     hour |-> h,
     rows |-> rs]

RECURSIVE TotalRows(_)
TotalRows(f) ==
    IF f = << >> THEN 0 ELSE Len(f[1]) + TotalRows(Tail(f))

InitTrend ==
    /\ script \in Scripts
    /\ \E named \in (IF script = "monthly" THEN { TRUE } ELSE BOOLEAN),
          h \in (IF script = "monthly" THEN { NowHour } ELSE CreationHours) :
          \* a directory of many files with no data line
          \/ \E n \in 0..MaxFiles : \E k \in [1..n -> 0..MaxDateKey] :
                csv_files =
                   [i \in 1..n |-> FileOf(script, named, k[i], h, << >>)]
          \* a directory of few files with data lines
          \/ \E n \in 1..MaxSnapshots :
                \E f \in [1..n -> SeqsUpTo(SnapshotRows, MaxSnapRows)] :
                   /\ TotalRows(f) \in 1..MaxSnapRows
                   /\ \E k \in [1..n -> 0..MaxDateKey] :
                         csv_files =
                            [i \in 1..n |-> FileOf(script, named, k[i], h, f[i])]
    /\ dated_files = << >> /\ reads = << >> /\ compliance_history = << >>
    /\ computer_names = << >> /\ dates = << >> /\ trend_data = << >>
    /\ writer = FALSE /\ tpc = "start" /\ terr = ""
    /\ IdleVersion /\ IdleNorm /\ IdlePage /\ IdleFilter /\ IdleReport
    /\ IdleOrder /\ IdlePicker

\* from glob.glob to pd.ExcelWriter(...): the candidates are listed, dated,
\* sorted and cut to the most recent, and the workbook is created
SelectSnapshots ==
    /\ tpc = "start"
    /\ IF SelectionRaises(script, csv_files) # ""
       THEN /\ terr' = SelectionRaises(script, csv_files)
            /\ tpc' = "raised"
            /\ UNCHANGED << dated_files, writer >>
       ELSE /\ dated_files' =
                  MostRecent(SortByDate(DatedFilesFrom(script, csv_files, 1)))
            /\ writer' = TRUE
            /\ tpc' = "selected"
            /\ UNCHANGED terr
    /\ UNCHANGED << script, csv_files, reads, compliance_history,
                    computer_names, dates, trend_data, versionVars, normVars,
                    pageVars, filterVars, reportVars, orderVars, pickerVars >>

\* "Process files and build compliance history": pd.read_csv of every
\* selected file in turn
ProcessSnapshots ==
    /\ tpc = "selected"
    /\ reads' = [i \in 1..Len(dated_files) |-> dated_files[i].file]
    /\ compliance_history' = ReadFiles(csv_files, dated_files)
    /\ computer_names' = NamesOfFiles(csv_files, dated_files)
    /\ tpc' = "processed"
    /\ UNCHANGED << script, csv_files, dated_files, dates, trend_data, writer,
                    terr, versionVars, normVars, pageVars, filterVars,
                    reportVars, orderVars, pickerVars >>

\* the files pd.read_csv is called on after the trend table is built: every
\* selected file again for its sheet, and in v2.1 the latest once more for
\* the chart
SheetReads(s, df) ==
    [i \in 1..Len(df) |-> df[i].file]
       \o (IF s = "v2.1" THEN << df[Len(df)].file >> ELSE << >>)

\* COMPLIANCE_THRESHOLDS: the bounds of the categories low, medium and high
COMPLIANCE_THRESHOLDS ==
    [low |-> << 1, 25 >>, medium |-> << 26, 50 >>, high |-> << 51 >>]

\* the counts of the four categories of the chart, in the order pass, low,
\* medium, high
CategoryCounts(rs) ==
    LET count(P(_)) == Cardinality({ i \in 1..Len(rs) : P(rs[i].failed) })
        pass(c) == c = 0
        low(c) == /\ c >= COMPLIANCE_THRESHOLDS.low[1]
                  /\ c <= COMPLIANCE_THRESHOLDS.low[2]
        medium(c) == /\ c >= COMPLIANCE_THRESHOLDS.medium[1]
                     /\ c <= COMPLIANCE_THRESHOLDS.medium[2]
        high(c) == c >= COMPLIANCE_THRESHOLDS.high[1]
    IN  << count(pass), count(low), count(medium), count(high) >>

\* generate_donut_chart(df_latest): the name of the image saved, or "None"
\* when no category has a count above zero
generate_donut_chart(rs) ==
    IF \A k \in 1..4 : CategoryCounts(rs)[k] = 0 THEN "None" ELSE "png"

\* the image handed to chart_sheet.insert_image in v2.1, made from the
\* latest selected file
ChartOf(df) == generate_donut_chart(csv_files[df[Len(df)].file].rows)

\* "Create trend analysis" and "Add averages row"; the sheets are then
\* written from the files read again, and the workbook closed.  In v2.1
\* insert_image('B2', None) raises TypeError; the except clause closes the
\* writer and raises it again
BuildTrend ==
    /\ tpc = "processed"
    /\ reads' = reads \o SheetReads(script, dated_files)
    /\ dates' = Sorted(HistoryDates(compliance_history))
    /\ trend_data' = TrendData(compliance_history, computer_names,
                               HistoryDates(compliance_history))
    /\ IF script = "v2.1" /\ ChartOf(dated_files) = "None"
       THEN tpc' = "raised" /\ terr' = "TypeError"
       ELSE tpc' = "returned" /\ UNCHANGED terr
    /\ UNCHANGED << script, csv_files, dated_files, compliance_history,
                    computer_names, writer, versionVars, normVars,
                    pageVars, filterVars, reportVars, orderVars, pickerVars >>

NextTrend == SelectSnapshots \/ ProcessSnapshots \/ BuildTrend

SpecTrend == InitTrend /\ [][NextTrend]_vars

(***************************************************************************)
(* version_gte called on every pair of three strings va, vb, vc, in an     *)
(* interpreter where _PKG_VERSION is set or None.                          *)
(***************************************************************************)
OrderChars == Digits \cup { "." }

InitOrder ==
    /\ va \in SeqsUpTo(OrderChars, MaxCandidateLen)
    /\ vb \in SeqsUpTo(OrderChars, MaxMiddleLen)
    /\ vc \in SeqsUpTo(OrderChars, MaxBaselineLen)
    /\ PKG_VERSION \in BOOLEAN
    /\ gte = NoAnswers /\ opc = "ready"
    /\ a = << >> /\ b = << >> /\ vpc = "idle" /\ result = FALSE
    /\ IdleNorm /\ IdlePage /\ IdleFilter /\ IdleReport /\ IdleTrend
    /\ IdlePicker

CompareTriple ==
    /\ opc = "ready"
    /\ gte' = [aa |-> version_gte(va, va, PKG_VERSION),
               bb |-> version_gte(vb, vb, PKG_VERSION),
               cc |-> version_gte(vc, vc, PKG_VERSION),
               ab |-> version_gte(va, vb, PKG_VERSION),
               bc |-> version_gte(vb, vc, PKG_VERSION),
               ac |-> version_gte(va, vc, PKG_VERSION)]
    /\ opc' = "compared"
    /\ UNCHANGED << va, vb, vc, versionVars, normVars, pageVars, filterVars,
                    reportVars, trendVars, pickerVars >>

NextOrder == CompareTriple

SpecOrder == InitOrder /\ [][NextOrder]_vars

(***************************************************************************)
(* interactive_select_titles(all_titles).  Each step is one pass of the    *)
(* "while True" loop: a line is read from the prompt, stripped, and        *)
(* handled by the first branch whose test it passes.  filtered, selected   *)
(* and q are the function's locals (q is empty until a search is typed),   *)
(* picks is the list built by the last numeric command, deduped the list   *)
(* returned.  ipc is "loop" while the loop runs and "returned" after the   *)
(* function returns.                                                       *)
(***************************************************************************)
PickChars == { "0", "2", ",", "-" }
SearchChars == { "x", "X" }
Done == << "d", "o", "n", "e" >>
All  == << "a", "l", "l" >>
Help == << "h", "e", "l", "p" >>

\* the lines the user types at "Search / numbers / command: "
NumericInputs == SeqsUpTo(PickChars, MaxCmdLen)
SearchInputs  == SeqsUpTo(SearchChars, MaxQueryLen)
WordInputs    == { Done, All, Help, << "?" >>, << " " >>, << "2", " " >> }
PromptInputs  == NumericInputs \cup SearchInputs \cup WordInputs

\* re.fullmatch(r"[0-9,\-\s]+", cmd)
IsPickCommand(cmd) ==
    /\ cmd # << >>
    /\ \A i \in 1..Len(cmd) :
          IsDigit(cmd[i]) \/ cmd[i] \in { ",", "-" } \/ IsSpace(cmd[i])

\* the position of the first sep in s, 0 when there is none
RECURSIVE FirstAt(_, _, _)
FirstAt(s, sep, i) ==
    IF i > Len(s) THEN 0
    ELSE IF s[i] = sep THEN i
    ELSE FirstAt(s, sep, i + 1)

\* cmd.split(",")
RECURSIVE SplitCommas(_)
SplitCommas(s) ==
    LET k == FirstAt(s, ",", 1)
    IN  IF k = 0 THEN << s >>
        ELSE << SubSeq(s, 1, k - 1) >> \o SplitCommas(SubSeq(s, k + 1, Len(s)))

\* int(text) of the picker: surrounding whitespace is ignored, a "-" may
\* precede the digits; ok is FALSE where Python raises ValueError
ParseInt(text) ==
    LET t == strip(text)
        neg == t # << >> /\ Head(t) = "-"
        ds == IF neg THEN Tail(t) ELSE t
    IN  IF ds # << >> /\ AllDigits(ds)
        THEN [ok |-> TRUE, val |-> IF neg THEN 0 - int(ds) ELSE int(ds)]
        ELSE [ok |-> FALSE, val |-> 0]

\* list(range(lo, hi + 1))
RangeList(lo, hi) == [i \in 1..(hi - lo + 1) |-> lo + i - 1]

\* the picks one part of the command adds
PartPicks(rawpart) ==
    LET part == strip(rawpart)
        k == FirstAt(part, "-", 1)
    IN  IF k # 0
        THEN LET a_i == ParseInt(SubSeq(part, 1, k - 1))
                 b_i == ParseInt(SubSeq(part, k + 1, Len(part)))
             IN  IF a_i.ok /\ b_i.ok
                 THEN RangeList(IF a_i.val <= b_i.val THEN a_i.val ELSE b_i.val,
                                Max(a_i.val, b_i.val))
                 ELSE << >>
        ELSE IF ParseInt(part).ok THEN << ParseInt(part).val >> ELSE << >>

\* picks after "for part in cmd.split(",")"
RECURSIVE PartsPicks(_)
PartsPicks(parts) ==
    IF parts = << >> THEN << >>
    ELSE PartPicks(Head(parts)) \o PartsPicks(Tail(parts))

CommandPicks(cmd) == PartsPicks(SplitCommas(cmd))

\* the selections "for idx in picks" appends
RECURSIVE PickedFrom(_, _)
PickedFrom(items, ps) ==
    IF ps = << >> THEN << >>
    ELSE LET first == Head(ps)
             rest == PickedFrom(items, Tail(ps))
         IN  IF 1 <= first /\ first <= Len(items)
             THEN << [id |-> items[first].id, title |-> items[first].title,
                      min_version |-> << >>] >> \o rest
             ELSE rest

\* q in text
Contains(text, sub) ==
    \E i \in 0..(Len(text) - Len(sub)) : SubSeq(text, i + 1, i + Len(sub)) = sub

\* [t for t in items if query in t["title"].lower()]
RECURSIVE FilterByQuery(_, _)
FilterByQuery(items, query) ==
    IF items = << >> THEN << >>
    ELSE IF Contains(LowerStr(Head(items).title), query)
         THEN << Head(items) >> \o FilterByQuery(Tail(items), query)
         ELSE FilterByQuery(Tail(items), query)

\* a search that narrows the list shown instead of the whole catalog
SearchResultNarrowing(query) == FilterByQuery(filtered, query)

\* the list a search command assigns to filtered
SearchResult(query) == FilterByQuery(all_titles, query)

\* the selections "all" appends
AllOf(items) ==
    [i \in 1..Len(items) |->
        [id |-> items[i].id, title |-> items[i].title, min_version |-> << >>]]

\* cmd = input("Search / numbers / command: ").strip()
Command(raw) == strip(raw)

\* the commands the lines typed make, by the branch that handles them
Commands == { Command(raw) : raw \in PromptInputs }
PickCommands == { cmd \in Commands : IsPickCommand(cmd) }
SearchCommands ==
    { cmd \in Commands :
        /\ cmd # << >>
        /\ LowerStr(cmd) \notin { << "?" >>, Help, Done, All }
        /\ ~IsPickCommand(cmd) }
\* the lists of picks the numeric commands make, and the search texts
PickLists == { CommandPicks(cmd) : cmd \in PickCommands }
Queries == { LowerStr(cmd) : cmd \in SearchCommands }

InitPicker ==
    /\ IdleVersion /\ IdleNorm /\ IdlePage /\ IdleFilter
    /\ IdleArgs /\ IdleSummary /\ IdleRatio
    /\ IdleTrend /\ IdleOrder
    /\ catalog = << >> /\ chosen = << >> /\ selections = << >>
    /\ mpc = "idle" /\ calls = << >> /\ written = { } /\ rc = "none"
    /\ path = << >> /\ idx = 0 /\ failed = << >>
    /\ baseline_summary_rows = << >> /\ per_title_detail = << >>
    /\ summaries = << >>
    /\ all_titles \in Catalogs
    /\ filtered = all_titles
    /\ selected = << >> /\ picks = << >> /\ q = << >>
    /\ deduped = << >> /\ ipc = "loop"

\* the place in sel of the first selection that has the id of sel[i]
FirstOfId(sel, i) == CHOOSE j \in 1..i :
    sel[j].id = sel[i].id /\ \A k \in 1..(j - 1) : sel[k].id # sel[i].id

\* the place in dedup(sel) of the selection that has the id of sel[i]
PlaceInDeduped(sel, i) ==
    Cardinality({ FirstOfId(sel, k) : k \in 1..FirstOfId(sel, i) })

\* "s.min_version = mv" for s in deduped: the objects of deduped are those
\* of selected, so the first selection of each id takes the baseline typed
\* for it, stripped, and a later selection of the id keeps its own
Baselined(sel, mv) ==
    [i \in 1..Len(sel) |->
        IF FirstOfId(sel, i) = i
        THEN [sel[i] EXCEPT !.min_version = strip(mv[PlaceInDeduped(sel, i)])]
        ELSE sel[i]]

\* "Dedup and prompt for baselines": the function returns the first
\* selection of each id with the baseline typed for it
Returns(sel) ==
    /\ \E mv \in [1..Len(dedup(sel)) -> BaselineInputs] :
          /\ selected' = Baselined(sel, mv)
          /\ deduped' = dedup(Baselined(sel, mv))
    /\ ipc' = "returned"

pickerFrame == << versionVars, normVars, pageVars, filterVars, reportVars,
                  trendVars, orderVars >>

\* "if not cmd: continue" and "if cmd.lower() in {"?", "help"}: continue"
ShowsAgain ==
    /\ ipc = "loop"
    /\ \E cmd \in Commands :
          cmd = << >> \/ LowerStr(cmd) \in { << "?" >>, Help }
    /\ UNCHANGED << pickerVars, pickerFrame >>

\* "if cmd.lower() == "done": break"
TypesDone ==
    /\ ipc = "loop"
    /\ \E cmd \in Commands : LowerStr(cmd) = Done
    /\ Returns(selected)
    /\ UNCHANGED << filtered, picks, q, pickerFrame >>

\* "if cmd.lower() == "all"": every item of filtered is selected, break
TypesAll ==
    /\ ipc = "loop"
    /\ \E cmd \in Commands : LowerStr(cmd) = All
    /\ Returns(selected \o AllOf(filtered))
    /\ UNCHANGED << filtered, picks, q, pickerFrame >>

\* "if re.fullmatch(r"[0-9,\-\s]+", cmd)": the picks within
\* 1..len(filtered) are selected.  The selections held are capped at
\* MaxPicks.
TypesNumbers ==
    /\ ipc = "loop"
    /\ picks' \in PickLists
    /\ selected' = selected \o PickedFrom(filtered, picks')
    /\ Len(selected') <= MaxPicks
    /\ UNCHANGED << filtered, q, deduped, ipc, pickerFrame >>

\* "else": any other text is a search over the whole catalog
TypesSearch ==
    /\ ipc = "loop"
    /\ q' \in Queries
    /\ filtered' = SearchResult(q')
    /\ UNCHANGED << selected, picks, deduped, ipc, pickerFrame >>

NextPicker ==
    \/ ShowsAgain
    \/ TypesDone
    \/ TypesAll
    \/ TypesNumbers
    \/ TypesSearch

SpecPicker == InitPicker /\ [][NextPicker]_vars

(***************************************************************************)
(* Properties.                                                             *)
(***************************************************************************)
CeilDiv(x, y) == (x + y - 1) \div y

Unparseable(r) == r.lct.kind \in FalsyKinds \cup RejectedKinds

\* C1: version_gte(v, "") is true for every candidate string v, the empty
\* string included: an empty baseline is no floor.
C1_EmptyBaselineIsNoFloor ==
    (vpc = "compared" /\ b = << >>) => result = TRUE

\* reached: the empty candidate was compared with the empty baseline
C1_EmptyCandidateEmptyBaseline ==
    vpc = "compared" /\ b = << >> /\ a = << >> /\ result = TRUE

\* C2, as claimed: version_gte("", b) is false for every non-empty string b.
C2_EmptyCandidateFailsEveryNonEmptyBaseline ==
    (vpc = "compared" /\ a = << >> /\ b # << >>) => result = FALSE

\* C2, amended: version_gte("", b) is false for every b whose normalised form
\* is non-empty; a baseline of blanks or of a parenthesised group only is
\* normalised to the empty baseline, and the answer is true.
C2_EmptyCandidateFailsEveryBaselineWithContent ==
    (vpc = "compared" /\ a = << >> /\ normalize_version(b) # << >>)
        => result = FALSE

\* reached: the empty candidate was compared with a baseline that keeps content
C2_EmptyCandidateAgainstParenthesisedBaseline ==
    /\ vpc = "compared" /\ a = << >>
    /\ b = << "1", "(", ")" >>
    /\ result = FALSE

\* C3: normalize_version is idempotent: applied to its own output it returns
\* that output, for strings with nested, unbalanced or repeated parentheses,
\* blanks and line breaks.
C3_NormalizeIdempotent ==
    Len(nhist) = 2 => nhist[2] = nhist[1]

\* reached: a string with a blank, a group and an unclosed parenthesis was normalised twice
C3_UnbalancedParenthesesNormalisedTwice ==
    /\ Len(nhist) = 2
    /\ ns = << " ", "(", ")", "(" >>
    /\ nhist[1] = << "(" >>

\* C4: for every pair of purely numeric dotted versions the fallback token
\* comparison (the interpreter without the packaging library) answers as the
\* packaging comparison does, pairs that differ only by trailing zero
\* components included.
C4_FallbackAgreesWithPackaging ==
    (vpc = "compared" /\ ~PKG_VERSION /\ IsNumericDotted(a) /\ IsNumericDotted(b))
        => result = PkgGte(a, b)

\* C5: a paged collection always terminates, whatever totals the backend
\* reports, given that its pages run out; and it returns no more items than
\* the pages it fetched held.
C5_TerminatesAndReturnsNoMoreThanFetched ==
    /\ <>(ppc \in { "done", "error", "raised" })
    /\ [](ppc = "done" => ret[1] <= fetched)

\* reached: patch_report ended on an empty third page though the total promised more
C5_EndedByEmptyPageUnderWrongTotal ==
    /\ ppc = "done" /\ fn = "patch_report"
    /\ requests = 3 /\ resp.n = 0
    /\ maxTotal > fetched /\ ret = << fetched >>

\* C6, as claimed: a collection that ended on a page without items has issued
\* at most ceil(totalEstimate / pageSize) + 1 requests, short pages or not.
C6_AtMostCeilPlusOneRequests ==
    (ppc = "done" /\ resp.n = 0)
        => requests <= CeilDiv(maxTotal, PageSize) + 1

\* C6, amended: the bound ceil(T / pageSize) + 1, T the greatest totalCount
\* reported, holds when every page before the last came back full; with
\* short pages the collection goes on until the accumulated count reaches
\* the total, and issues at most max(1, T) requests.
C6_RequestBound ==
    /\ requests <= Max(1, maxTotal)
    /\ allFull => requests <= CeilDiv(maxTotal, PageSize) + 1

\* reached: patch_report read short pages until the total, beyond ceil(T / pageSize) + 1 requests
C6_ShortPagesUntilTotal ==
    /\ ppc = "done" /\ fn = "patch_report"
    /\ ~allFull
    /\ requests = maxTotal
    /\ requests > CeilDiv(maxTotal, PageSize) + 1

\* C7, as claimed: after a failed page request the collection has ended in an
\* error carrying the status and the body, has handed none of the items of
\* the earlier pages to its caller, and issues no further request.
C7_FailureDiscardsAllItems ==
    ppc = "error" =>
        /\ err = [status |-> resp.status, body |-> resp.body]
        /\ ret = NotReturned /\ yielded = 0
        /\ ~ENABLED NextPage

\* C7, amended: after a failed page request the collection has ended in an
\* error carrying the status and the body and issues no further request;
\* patch_report and list_patch_titles hand none of the accumulated items to
\* their caller, while the generator of list_inventory has already yielded
\* the items of the earlier pages to its consumer, and yields no more.
C7_FailureEndsCollection ==
    ppc = "error" =>
        /\ err = [status |-> resp.status, body |-> resp.body]
        /\ ret = NotReturned
        /\ fn \in { "patch_report", "list_patch_titles" } => yielded = 0
        /\ fn = "list_inventory" => yielded <= fetched
        /\ ~ENABLED NextPage

\* reached: patch_report failed on its second page, a full first page accumulated
C7_FailureAfterAccumulatedPages ==
    /\ ppc = "error" /\ fn = "patch_report"
    /\ requests = 2 /\ acc = PageSize
    /\ err = [status |-> 500, body |-> "failed"]
    /\ ret = NotReturned

\* C8: every paged call site derives from a response the (items, total) that
\* _coerce_results derives from it, whatever the shape of the response.
C8_CallSitesDeriveWhatCoerceResultsDoes ==
    (resp.status = 200 /\ derived # << >>) => derived = _coerce_results(resp)

\* C9: filter_active_rows(rows, days) with days <= 0 returns the input
\* records unchanged: the same records in the same order, none dropped,
\* those without a parseable lastContactTime included.
C9_NoWindowIsIdentity ==
    /\ (fpc # "ready" /\ days <= 0) => fpc = "returned"
    /\ (fpc = "returned" /\ days <= 0) => out = rows

\* reached: days = 0 on two records without a parseable lastContactTime
C9_ZeroDaysKeepsUnparseableRows ==
    /\ fpc = "returned" /\ days = 0
    /\ Len(rows) = 2
    /\ rows[1].lct.kind = "garbage" /\ rows[2].lct.kind = "missing"
    /\ out = rows

\* C10: with days > 0 a record whose lastContactTime is missing, empty or
\* unparseable is left out and raises nothing; the records that parse are
\* still judged, those inside the window being kept; and the output keeps
\* the order of the input.
C10_UnparseableLeftOutOthersKept ==
    /\ (fpc # "ready" /\ days > 0) => fpc = "returned"
    /\ (fpc = "returned" /\ days > 0) =>
          /\ \A i \in 1..Len(out) : ~Unparseable(out[i])
          /\ \A i \in 1..Len(out) :
                /\ out[i].id \in 1..Len(rows)
                /\ rows[out[i].id] = out[i]
          /\ \A i, j \in 1..Len(out) : i < j => out[i].id < out[j].id
          /\ \A i \in 1..Len(rows) :
                (~Unparseable(rows[i]) /\ rows[i].lct.age \div 2 <= days)
                    => \E k \in 1..Len(out) : out[k] = rows[i]

\* reached: an unparseable record was skipped and the record after it, on the last day of the window, kept
C10_GarbageSkippedNextRowKept ==
    /\ fpc = "returned" /\ days > 0
    /\ Len(rows) = 2
    /\ rows[1].lct.kind = "garbage"
    /\ rows[2].lct.kind = "fmt_naive" /\ rows[2].lct.age = 2 * days + 1
    /\ out = << rows[2] >>

\* C11: for every selection, every list of device records and every window,
\* the summary of build_baseline_summary has Non-Compliant >= 0 and
\* Compliant + Non-Compliant = Active Devices, and there are as many detail
\* rows as active devices.
C11_SummaryCountsAddUp ==
    spc = "built" =>
        /\ summary.NonCompliant >= 0
        /\ summary.Compliant + summary.NonCompliant = summary.ActiveDevices
        /\ Len(detail_rows) = summary.ActiveDevices

\* reached: the window dropped one of two records, and the one left is below the baseline
C11_WindowedSummaryBelowBaseline ==
    /\ spc = "built" /\ sum_days > 0
    /\ Len(rows_all) = 2 /\ summary.ActiveDevices = 1
    /\ title.min_version = << "1", ".", "0", ".", "1" >>
    /\ summary.Compliant = 0 /\ summary.NonCompliant = 1

\* C12: in fleet-ratio mode with total = 100 and active = 25 (ratio 0.25) a
\* title with patched = 40 and outOfDate = 10 gets adj_patched = 10,
\* adj_out = 3 and adj_completion = round(10 / 13 * 100, 2).
C12_ScaledCountsOfTheScenario ==
    ( /\ rpc = "built" /\ ratio_total = 100 /\ ratio_active = 25
      /\ patch_summary.hostsOnLatestVersion = 40
      /\ patch_summary.hostsOutOfDate = 10 )
    => /\ overall.PatchedActive = 10
       /\ overall.OutOfDateActive = 3
       /\ overall.CompletionActive = Percent(10, 13)

\* the baseline of selection x is empty or blank
BlankBaseline(x) == x.min_version = << >> \/ strip(x.min_version) = << >>

\* the selections were built, by whichever path
SelectionsBuilt == chosen # << >>

\* C13, as claimed: with a global default given, every selection whose
\* baseline was non-empty keeps it, every selection whose baseline was
\* empty or blank has the global default as given, and the selections are
\* the same ones in the same order.
C13_EmptyBaselinesGetGlobalDefaultAsGiven ==
    (SelectionsBuilt /\ GlobalSupplied) =>
        /\ Len(selections) = Len(chosen)
        /\ \A i \in 1..Len(chosen) :
              /\ selections[i].id = chosen[i].id
              /\ selections[i].title = chosen[i].title
              /\ ~BlankBaseline(chosen[i])
                    => selections[i].min_version = chosen[i].min_version
              /\ BlankBaseline(chosen[i])
                    => selections[i].min_version = global_min_version

\* C13, amended: the selections whose baseline was empty or blank have the
\* global default with its surrounding whitespace removed; the others keep
\* their baseline, and the selections are the same ones in the same order.
C13_EmptyBaselinesGetStrippedGlobalDefault ==
    (SelectionsBuilt /\ GlobalSupplied) =>
        /\ Len(selections) = Len(chosen)
        /\ \A i \in 1..Len(chosen) :
              /\ selections[i].id = chosen[i].id
              /\ selections[i].title = chosen[i].title
              /\ ~BlankBaseline(chosen[i])
                    => selections[i].min_version = chosen[i].min_version
              /\ BlankBaseline(chosen[i])
                    => selections[i].min_version = strip(global_min_version)

\* reached: of two picked titles the one given the baseline "1" kept it and the other got the default "0"
C13_ExplicitKeptEmptyFilled ==
    /\ path = << "picker" >> /\ global_min_version = << " ", "0" >>
    /\ Len(chosen) = 2
    /\ chosen[1].min_version = << "1" >> /\ chosen[2].min_version = << >>
    /\ selections[1].min_version = << "1" >>
    /\ selections[2].min_version = << "0" >>

\* C14: a row of the titles file whose min_version cell is blank gives a
\* selection with an empty baseline, so that, no global default given, every
\* active device of the title is compliant and the summary shows "(none)".
C14_BlankCellIsNoFloor ==
    \A i \in 1..Len(file_sels) :
        ( /\ spc = "built" /\ global_min_version = << >>
          /\ titles_file.hasMin /\ titles_file.rows[i].min_version = << >>
          /\ title = file_sels[i] )
        => /\ title.min_version = << >>
           /\ summary.Compliant = summary.ActiveDevices
           /\ summary.Baseline = None_text

\* C15: on every construction path the selections hold at most one selection
\* per identifier.
C15_OneSelectionPerIdentifier ==
    \A i, j \in 1..Len(selections) :
        i # j => selections[i].id # selections[j].id

\* C16: exactly one construction path runs, chosen by precedence titles file
\* > interactive picker > full-catalog default: with a titles file the picker
\* is never invoked, and the full catalog is taken only when neither of the
\* other two is supplied; outside baseline mode no path runs.
C16_OnePathByPrecedence ==
    /\ Len(path) <= 1
    /\ mpc = "baseline" => Len(path) = 1
    /\ ~use_baseline_mode => path = << >>
    /\ path # << >> =>
          /\ FileSupplied => path = << "file" >>
          /\ (~FileSupplied /\ interactive) => path = << "picker" >>
          /\ (~FileSupplied /\ ~interactive) => path = << "default" >>

\* reached: a run given all three flags took its selections from the file and wrote the report
C16_AllFlagsFileWins ==
    /\ FileSupplied /\ interactive /\ GlobalSupplied
    /\ path = << "file" >> /\ chosen # << >>
    /\ mpc = "exit" /\ rc = "0"

\* the catalog was fetched by resolve_selections_from_file and the entries of
\* the file looked up in it
Resolved ==
    /\ path = << "file" >> /\ Len(calls) >= 2
    /\ \A k \in 1..Len(failed) : failed[k].op # "list_patch_titles"

\* entry e of the file names a catalog item, ignoring case
NamesCatalogItem(e) ==
    \E k \in 1..Len(catalog) :
        LowerStr(catalog[k].title) = LowerStr(e.title)

\* C17: a file entry resolves exactly when its name equals a catalog title
\* ignoring case; the entries that match none are dropped without an
\* exception, and those that resolve are returned in file order, each with
\* its own name and baseline and the id of a catalog item of that name.
C17_ResolvesByNameIgnoringCase ==
    Resolved =>
        LET kept == SelectSeq(file_sels, NamesCatalogItem)
        IN  /\ Len(chosen) = Len(kept)
            /\ \A i \in 1..Len(chosen) :
                  /\ chosen[i].title = kept[i].title
                  /\ chosen[i].min_version = kept[i].min_version
                  /\ \E k \in 1..Len(catalog) :
                        /\ catalog[k].id = chosen[i].id
                        /\ LowerStr(catalog[k].title) = LowerStr(chosen[i].title)
            /\ (rc = "raised" => failed # << >>)
            /\ (kept = << >> /\ mpc = "exit") => rc = "1"

\* reached: of the entries "X " and "" of a CSV the first resolved to the catalog's "x", the second (read as "nan") was dropped
C17_UpperCaseNameResolvedBlankDropped ==
    /\ Resolved /\ mpc = "exit" /\ rc = "0"
    /\ Len(file_sels) = 2
    /\ file_sels[1].title = << "X" >>
    /\ file_sels[2].title = << "n", "a", "n" >>
    /\ Len(chosen) = 1
    /\ chosen[1].title = << "X" >>
    /\ \E k \in 1..Len(catalog) :
          catalog[k].title = << "x" >> /\ catalog[k].id = chosen[1].id

\* C18: a titles file without the title column makes the run fail before any
\* network request is issued.
C18_MissingTitleColumnFailsBeforeAnyRequest ==
    ( /\ mpc = "exit" /\ rc = "raised" /\ failed = << >>
      /\ titles_file.kind = "csv" /\ ~titles_file.hasTitle )
    => calls = << >>

\* the requests issued for operation op
CallsOf(op) == SelectSeq(calls, LAMBDA c : c.op = op)

\* C19: when the fetch for one tracked item fails, the failure is skipped:
\* every item of the batch is still fetched, and the report is written.
C19_ItemFailureIsSkipped ==
    ( /\ mpc = "exit"
      /\ \E k \in 1..Len(failed) : failed[k].op \in { "patch_report", "patch_summary" } )
    => /\ rc = "0" /\ "report" \in written
       /\ use_baseline_mode => Len(CallsOf("patch_report")) = Len(selections)
       /\ ~use_baseline_mode =>
             /\ Len(CallsOf("patch_summary")) = Len(all_titles)
             /\ Len(CallsOf("patch_report")) = Len(all_titles)

\* write_excel raised
WriteFailed == \E k \in 1..Len(failed) : failed[k].op = "write_excel"

\* the run ended in a fatal condition: main returned 1 or 2, or an exception
\* left it before write_excel was called
Fatal == mpc = "exit" /\ rc \in { "1", "2", "raised" } /\ ~WriteFailed

\* C20, as claimed: a run that ends in a fatal condition has written no
\* output file at all.
C20_FatalRunWritesNoFile ==
    Fatal => written = { }

\* C20, amended: a run that ends in a fatal condition has not written the
\* report; the list of titles asked for with --export-titles is written
\* before the selections are built, and stays.
C20_FatalRunWritesNoReport ==
    Fatal => "report" \notin written

\* reached: the second fetch of the baseline loop failed after the first summary was built and the titles list exported
C20_SecondFetchFailsAfterExport ==
    /\ Fatal /\ rc = "raised"
    /\ Len(baseline_summary_rows) = 1
    /\ Len(failed) = 1 /\ failed[1].op = "patch_report"
    /\ written = { "titles_csv" }

(***************************************************************************)
(* The trend table against the snapshots it was built from.                *)
(***************************************************************************)
\* the data lines of the k-th processed snapshot
RowsRead(k) == csv_files[dated_files[k].file].rows

\* the places <<k, j>> where the processed snapshots of date d hold a line
\* of entity s
Occurrences(s, d) ==
    { p \in (1..Len(dated_files)) \X (1..MaxSnapRows + 1) :
         /\ dated_files[p[1]].date = d
         /\ p[2] <= Len(RowsRead(p[1]))
         /\ RowsRead(p[1])[p[2]].serial = s }

InSnapshotOf(s, d) == Occurrences(s, d) # { }

\* the last line read for entity s on date d
LastOccurrence(s, d) ==
    CHOOSE p \in Occurrences(s, d) :
       \A o \in Occurrences(s, d) :
          o[1] < p[1] \/ (o[1] = p[1] /\ o[2] <= p[2])

CountOn(s, d) ==
    RowsRead(LastOccurrence(s, d)[1])[LastOccurrence(s, d)[2]].failed

PresentOn(d) == { s \in Serials : InSnapshotOf(s, d) }

RECURSIVE SumOfCounts(_, _)
SumOfCounts(S, d) ==
    IF S = { } THEN 0
    ELSE LET s == CHOOSE x \in S : TRUE
         IN  CountOn(s, d) + SumOfCounts(S \ { s }, d)

EntityRows == SubSeq(trend_data, 1, Len(trend_data) - 1)
AverageRow == trend_data[Len(trend_data)]

\* the trend table has been built: the run returned, or raised after the
\* workbook was created and the table written to it
TrendBuilt == tpc = "returned" \/ (tpc = "raised" /\ writer)

\* C21: a cell of an entity's row is absent (NaN), not zero, exactly when
\* the entity is in no processed snapshot of that date, and holds the
\* entity's failure count otherwise; the average row's value for a date is
\* the mean of the failure counts of exactly the entities present on it.
C21_AbsentCellsAndMeanOfPresent ==
    TrendBuilt =>
       /\ \A i \in 1..Len(EntityRows) : \A d \in DOMAIN EntityRows[i].cells :
             IF InSnapshotOf(EntityRows[i].serial, d)
             THEN EntityRows[i].cells[d]
                     = Number(CountOn(EntityRows[i].serial, d), 1)
             ELSE EntityRows[i].cells[d].nan
       /\ \A d \in DOMAIN AverageRow.cells :
             /\ PresentOn(d) # { }
             /\ ~AverageRow.cells[d].nan
             /\ AverageRow.cells[d].num * Cardinality(PresentOn(d))
                   = SumOfCounts(PresentOn(d), d) * AverageRow.cells[d].den

\* reached: SN1 failed 5 checks on one date and is absent on another, where
\* SN2 passed all; the averages are 5 and 0, not 2.5 and 0
C21_AbsentEntityLeftOutOfMean ==
    /\ tpc = "returned" /\ Len(trend_data) = 3
    /\ \E d1, d2 \in DOMAIN AverageRow.cells :
          /\ d1 # d2
          /\ trend_data[1].serial = "SN1"
          /\ trend_data[1].cells[d1] = Number(5, 1)
          /\ trend_data[1].cells[d2] = NaN
          /\ trend_data[2].cells[d1] = NaN
          /\ trend_data[2].cells[d2] = Number(0, 1)
          /\ AverageRow.cells[d1] = Number(5, 1)
          /\ AverageRow.cells[d2] = Number(0, 1)

\* the entity keys of the processed snapshots, line by line
RECURSIVE SerialsRead(_)
SerialsRead(k) ==
    IF k = 0 THEN << >>
    ELSE SerialsRead(k - 1)
           \o [j \in 1..Len(RowsRead(k)) |-> RowsRead(k)[j].serial]

\* a sequence without its repetitions, each element at its first place
RECURSIVE FirstSeen(_)
FirstSeen(s) ==
    IF s = << >> THEN << >>
    ELSE LET front == FirstSeen(SubSeq(s, 1, Len(s) - 1))
         IN  IF \E i \in 1..Len(front) : front[i] = s[Len(s)] THEN front
             ELSE Append(front, s[Len(s)])

\* C22: the trend table has exactly one row per distinct entity key of the
\* processed snapshots, in first-seen order, followed by exactly one average
\* row, which is the last row.
C22_OneRowPerEntityThenAverage ==
    TrendBuilt =>
       /\ [i \in 1..Len(EntityRows) |-> EntityRows[i].serial]
             = FirstSeen(SerialsRead(Len(dated_files)))
       /\ AverageRow.serial = AverageLabel
       /\ \A i \in 1..Len(EntityRows) : EntityRows[i].serial # AverageLabel

\* reached: SN2 was read in two snapshots before SN1 or alone, and has one
\* row, the first
C22_EntityOfTwoSnapshotsHasOneRow ==
    /\ tpc = "returned" /\ Len(dated_files) = 2
    /\ SerialsRead(2) = << "SN2", "SN2" >>
    /\ Len(trend_data) = 2
    /\ trend_data[1].serial = "SN2" /\ trend_data[2].serial = AverageLabel

\* the places in the listing of the candidates that have a date key
Candidates ==
    { i \in 1..Len(csv_files) : HasDateKey(script, csv_files[i]) }

Processed == { reads[k] : k \in 1..Len(reads) }

\* the files read for the compliance history, in the order read
HistoryReads == SubSeq(reads, 1, Len(dated_files))

\* at most four candidates are processed, those of the greatest date keys,
\* each read once for the history in ascending order of date key; no other
\* file is read afterwards
FourMostRecentProcessed ==
    /\ Len(HistoryReads) = (IF Cardinality(Candidates) < 4
                            THEN Cardinality(Candidates) ELSE 4)
    /\ Cardinality(Processed) = Len(HistoryReads)
    /\ Processed \subseteq Candidates
    /\ \A i \in Processed : \A j \in Candidates \ Processed :
          DateKey(script, csv_files[j]) <= DateKey(script, csv_files[i])
    /\ \A k \in 1..Len(HistoryReads) - 1 :
          DateKey(script, csv_files[reads[k]])
             <= DateKey(script, csv_files[reads[k + 1]])

\* the run failed before the workbook was created
FailsBeforeOutput ==
    tpc # "start" => (tpc = "raised" /\ ~writer /\ reads = << >>)

\* C23, as claimed: of the candidates that have a date key at most four are
\* processed, those of the greatest date keys, in ascending date order; a
\* source without a date token in its name is never processed; when no
\* candidate has a date key the run fails before any output is created.
C23_NoSourceWithoutDateTokenProcessed ==
    /\ (tpc = "processed" \/ TrendBuilt) => FourMostRecentProcessed
    /\ \A i \in Processed : csv_files[i].token # 0
    /\ Candidates = { } => FailsBeforeOutput

\* C23, amended: as claimed, where the source that is never processed is
\* the one without a date key: without a date token in its name in the
\* script that reads the date from the name, created before the cut-off in
\* the script that reads the creation date, whatever its name.
C23_FourMostRecentDatedProcessed ==
    /\ (tpc = "processed" \/ TrendBuilt) => FourMostRecentProcessed
    /\ \A i \in Processed : HasDateKey(script, csv_files[i])
    /\ Candidates = { } => FailsBeforeOutput
    /\ writer => Candidates # { }

\* reached: of five dated candidates the oldest was left out and the other
\* four were read, oldest first
C23_FiveDatedOldestLeftOut ==
    /\ tpc = "returned" /\ Len(csv_files) = 5 /\ Cardinality(Candidates) = 5
    /\ DateKey(script, csv_files[3]) = 1
    /\ \A i \in { 1, 2, 4, 5 } : DateKey(script, csv_files[i]) = 2
    /\ HistoryReads = << 1, 2, 4, 5 >>

\* the processed snapshot that the cell of entity s in column d was read
\* from
SourceOf(s, d) == dated_files[LastOccurrence(s, d)[1]].file

\* C28, as claimed: every date column of the trend table holds values from
\* a single snapshot, also when two processed snapshots have the same date
\* key.
C28_ColumnFromOneSnapshot ==
    TrendBuilt =>
       \A d \in DOMAIN AverageRow.cells :
          Cardinality({ SourceOf(s, d) : s \in PresentOn(d) }) <= 1

(***************************************************************************)
(* The two paths of main.                                                  *)
(***************************************************************************)
\* one of --interactive, --titles-file, --global-min-version was given (with
\* a value that is not empty)
BaselineRequested ==
    interactive \/ titles_file.kind # "none" \/ global_min_version # << >>

\* C24: baseline mode runs exactly when at least one of --interactive,
\* --titles-file, --global-min-version is supplied, and a run does one path
\* only: in baseline mode no inventory listing and no vendor patch summary
\* is fetched, in fleet-ratio mode no baseline summary row is produced.
C24_OnePathPerRun ==
    /\ mpc \in { "select", "baseline" } => BaselineRequested
    /\ mpc \in { "inventory", "summaries", "details" } => ~BaselineRequested
    /\ BaselineRequested =>
          /\ CallsOf("list_inventory") = << >>
          /\ CallsOf("patch_summary") = << >>
          /\ summaries = << >>
    /\ ~BaselineRequested =>
          /\ baseline_summary_rows = << >>
          /\ mpc \in { "write", "exit" } /\ rc \in { "none", "0" }
                => Len(CallsOf("list_inventory")) = 1
    /\ (mpc = "exit" /\ rc = "0" /\ BaselineRequested) =>
          Len(baseline_summary_rows) = Len(selections)

\* reached: --global-min-version alone put the run on the baseline path,
\* which ended with a summary row per title and no inventory listing
C24_GlobalDefaultAloneRunsBaseline ==
    /\ mpc = "exit" /\ rc = "0"
    /\ ~interactive /\ titles_file.kind = "none" /\ global_min_version # << >>
    /\ Len(baseline_summary_rows) = 2
    /\ Len(CallsOf("patch_report")) = 2
    /\ CallsOf("list_inventory") = << >>

(***************************************************************************)
(* The page requests of a collection, one after the other.                 *)
(***************************************************************************)
\* the items the collection holds so far
Accumulated == IF fn = "list_inventory" THEN yielded ELSE acc

\* this step is a page request and the handling of its response
PageRequested == requests' = requests + 1

\* C25: a paged collection requests the page indexes 0, 1, 2, ... one after
\* the other, each at most once, and requests no further page once a page
\* returned zero items or the accumulated item count reached the reported
\* total.  (Between a request of list_inventory and the end of its
\* iteration the items of the page are yielded.)
C25_PagesInOrderUntilStop ==
    [][ /\ PageRequested => (ppc = "request" /\ page = requests)
        /\ page' = (IF ppc' = "request" THEN requests' ELSE page)
        /\ ( /\ resp'.status = 200
             /\ \/ resp'.n = 0
                \/ resp'.hasTotal /\ Accumulated' >= resp'.total )
           => \/ ppc' = "done"
              \/ fn = "list_inventory" /\ ppc' \in { "yield", "raised" }
        /\ (ppc = "yield" /\ ppc' = "yield") => ~PageRequested /\ pending' < pending
        /\ resp'.status # 200 => ppc' = "error" ]_vars

\* reached: patch_report asked for pages 0, 1 and 2 and stopped when the
\* third page brought the count to the reported total
C25_ThirdPageReachesTotal ==
    /\ fn = "patch_report" /\ ppc = "done"
    /\ requests = 3 /\ page = 2
    /\ resp.hasTotal /\ resp.n > 0 /\ acc = resp.total

\* C26: when a page response carries no totalCount (a bare array, or a dict
\* without totalCount), patch_report and list_patch_titles stop after that
\* page and return what they hold, so a backend that never reports a total
\* is read for exactly one page however many items the page holds.
C26_NoTotalCountStopsAfterThatPage ==
    [][ ( /\ fn \in { "patch_report", "list_patch_titles" }
          /\ resp'.status = 200 /\ ~resp'.hasTotal )
           => /\ ppc = "request"
              /\ ppc' = "done"
              /\ fetched' = fetched + resp'.n
              /\ fn = "patch_report" => ret' = << acc + _coerce_results(resp')[1] >>
              /\ requests = 0 => requests' = 1 ]_vars

\* reached: list_patch_titles got a full first page as a bare array and
\* asked for no second page
C26_FullBareArrayReadOnce ==
    /\ fn = "list_patch_titles" /\ ppc = "done"
    /\ requests = 1 /\ page = 0
    /\ resp.shape = "list" /\ resp.n = PageSize

(***************************************************************************)
(* The fleet ratio and the counts scaled by it.                            *)
(***************************************************************************)
\* C27: calculate_active_ratio returns 0 <= active <= total, so that the
\* ratio active / total lies between 0 and 1 and is 0 when total is 0; for
\* every title the active-scaled counts do not exceed the unscaled ones.
C27_RatioWithinUnitScaledWithinUnscaled ==
    /\ 0 <= ratio_active /\ ratio_active <= ratio_total
    /\ rpc = "built" =>
          /\ 0 <= overall.PatchedActive
          /\ overall.PatchedActive <= overall.PatchedAll
          /\ 0 <= overall.OutOfDateActive
          /\ overall.OutOfDateActive <= overall.OutOfDateAll
          /\ ratio_total = 0 =>
                overall.PatchedActive = 0 /\ overall.OutOfDateActive = 0

\* reached: one device of four is active, and a title with 40 patched and 10
\* out-of-date hosts is scaled to 10 and 2
C27_QuarterActiveScalesDown ==
    /\ rpc = "built" /\ ratio_total = 4 /\ ratio_active = 1
    /\ overall.PatchedAll = 40 /\ overall.PatchedActive = 10
    /\ overall.OutOfDateAll = 10 /\ overall.OutOfDateActive = 2

(***************************************************************************)
(* version_gte as an ordering.                                             *)
(***************************************************************************)
\* C29: version_gte is reflexive and transitive on all version strings,
\* triples where some pairs are compared by the packaging library and
\* others by the token comparison included.
C29_ReflexiveAndTransitive ==
    opc = "compared" =>
       /\ gte.aa /\ gte.bb /\ gte.cc
       /\ (gte.ab /\ gte.bc) => gte.ac

\* the catalog items whose title contains text, ignoring case, in the order
\* of the catalog
Matching(text) ==
    SelectSeq(all_titles,
              LAMBDA t : Contains(LowerStr(t.title), LowerStr(text)))

\* sel refers to an item of the catalog
InCatalog(sel) ==
    \E i \in 1..Len(all_titles) :
        all_titles[i].id = sel.id /\ all_titles[i].title = sel.title

\* the picks of ps that lie within 1..n
WithinList(ps, n) == SelectSeq(ps, LAMBDA p : 1 <= p /\ p <= n)

\* the titles the picks ps point at in items, one id for each pick within
\* the list
PointedAt(items, ps) ==
    [i \in 1..Len(WithinList(ps, Len(items))) |->
        items[WithinList(ps, Len(items))[i]].id]

IdsOf(sel) == [i \in 1..Len(sel) |-> sel[i].id]

\* C30: in the interactive picker the filtered list is always exactly the
\* catalog items whose title contains the most recent search text ignoring
\* case, whatever was searched before; every selection held or returned
\* refers to an item of the catalog; and a numeric command adds one
\* selection for each pick within 1..len(filtered), so a pick outside that
\* range adds none.
C30_FilteredSelectionsAndPicks ==
    /\ [](ipc # "idle" =>
            /\ filtered = Matching(q)
            /\ \A i \in 1..Len(selected) : InCatalog(selected[i])
            /\ \A i \in 1..Len(deduped) : InCatalog(deduped[i]))
    /\ [][ipc' = "loop" =>
            \/ selected' = selected
            \/ /\ Len(selected') =
                    Len(selected) + Len(WithinList(picks', Len(filtered)))
               /\ IdsOf(selected') =
                    IdsOf(selected) \o PointedAt(filtered, picks')]_vars

\* the search "xx" left one of the two catalog items in the list, and the
\* command "0-2" then added one selection, that item, for its picks 0, 1, 2
C30_RangeOverNarrowedListAddsOne ==
    /\ ipc = "loop" /\ Len(all_titles) = 2
    /\ q = << "x", "x" >> /\ Len(filtered) = 1
    /\ picks = << 0, 1, 2 >>
    /\ Len(selected) = 1 /\ selected[1].id = filtered[1].id

====
